---- MODULE Spec2Model ----
(***************************************************************************)
(* Beam-search placement solver of Graficas-hechos (src/src/solver.py)     *)
(* together with the capacity model it reads (src/Prediseño_automatizado). *)
(*                                                                         *)
(* Units.  Heights are whole millimetres, so a difference exceeds the      *)
(* solver's tolerance of 1e-6 exactly when it exceeds 0.  Scores and score *)
(* weights are hundredths (fit_bonus 8.0 is 800), which keeps every weight *)
(* of PlanSettings and the 0.05 image-priority weight integral.            *)
(* lines_per_mm is 1 / mm_per_line.  Python's None is the absence of a     *)
(* record field for attributes read with getattr, NoPreset for a preset    *)
(* name and 0 for a title level (the code only tests its truth value).     *)
(***************************************************************************)
EXTENDS Integers, Sequences, FiniteSets, TLC

VARIABLES
    columns,          \* page_geom.columns
    column_height,    \* page_geom.usable_rect_mm[3]
    notes,            \* the input note list
    capacity_model,   \* CapacityModel (text_style, image_presets)
    settings,         \* PlanSettings
    variants_by_note, \* the variant catalog, or NoCatalog
    pc,               \* position inside solve_page_layout
    note_idx,         \* index of the note of the current round (for note in notes)
    state_idx,        \* index of the beam state expanded next (for state in beam)
    beam,             \* beam: List[_BeamState]
    new_states,       \* new_states of the current round (sorted in place at its end)
    generated,        \* history: new_states of the last finished round, before its sort
    perm,             \* history: perm[i] is the index in generated of new_states[i]
    rounds,           \* history: number of expansion rounds finished
    outcome,          \* the returned SolverOutcome, <<>> until the call returns
    call,             \* a call of a function of Prediseño_automatizado.py: its name and arguments
    result            \* what the call gave: <<>> before it, <<"return", value>> or <<"raise", error>>

vars == <<columns, column_height, notes, capacity_model, settings, variants_by_note,
          pc, note_idx, state_idx, beam, new_states, generated, perm, rounds, outcome,
          call, result>>

library == <<call, result>>

inputs == <<columns, column_height, notes, capacity_model, settings, variants_by_note>>

-----------------------------------------------------------------------------
(* Bounds of the model *)

MaxNotes == 3
MaxColumns == 2
MaxBeamWidth == 2
MaxScenarioNotes == 5
MaxAttrNotes == 2
MaxHeightMm == 6
MaxSpan == 3
MaxTaggedNotes == 2

(* Program constants *)

Tolerance == 0
ImagePriorityWeight == 5
DefaultBeamWidth == 8

NoPreset == "<None>"
NoCatalog == <<>>
NoCall == [fn |-> "<None>"]

-----------------------------------------------------------------------------
(* Arithmetic helpers *)

Max2(a, b) == IF a >= b THEN a ELSE b
Min2(a, b) == IF a <= b THEN a ELSE b

RECURSIVE SeqMax(_)
SeqMax(s) == IF Len(s) = 1 THEN s[1] ELSE Max2(s[1], SeqMax(Tail(s)))

RECURSIVE SeqMin(_)
SeqMin(s) == IF Len(s) = 1 THEN s[1] ELSE Min2(s[1], SeqMin(Tail(s)))

RECURSIVE SeqSum(_)
SeqSum(s) == IF s = <<>> THEN 0 ELSE s[1] + SeqSum(Tail(s))

CeilDiv(a, b) == (a + b - 1) \div b

-----------------------------------------------------------------------------
(* PlanSettings *)

PlanSettings(bw) ==
    [beam_width |-> bw,
     fit_bonus |-> 800,
     gap_penalty_per_mm |-> 18,
     overflow_penalty_per_char |-> 12,
     overfill_penalty_per_mm |-> 65,
     drop_penalty |-> 1000,
     final_gap_penalty_per_mm |-> 25,
     default_title_level |-> 1,
     default_image_preset |-> NoPreset,
     unused_capacity_penalty_per_char |-> 2,
     mordida_penalty_per_line |-> 50,
     missing_image_penalty |-> 150]

-----------------------------------------------------------------------------
(* TextStyle, ImagePreset, CapacityModel *)

\* int(effective_height * lines_per_mm * chars_per_line)
capacity_for_height(style, height_mm) ==
    LET effective_height == Max2(height_mm, 0)
    IN (effective_height * style.chars_per_line) \div style.mm_per_line

title_cost(style, level, span) ==
    IF level = 0 THEN 0
    ELSE IF level \notin DOMAIN style.title_heights_mm THEN 0
    ELSE style.title_heights_mm[level] * Max2(span, 1)

HasPreset(model, name) == \E i \in 1..Len(model.image_presets) : model.image_presets[i].name = name

GetPreset(model, name) ==
    model.image_presets[CHOOSE i \in 1..Len(model.image_presets) : model.image_presets[i].name = name]

\* ImagePreset.cost(span); span = 0 stands for span=None
preset_cost(preset, span) ==
    IF span = 0 \/ span = preset.span THEN preset.height_mm
    ELSE (preset.height_mm * Max2(span, 1)) \div Max2(preset.span, 1)

\* CapacityModel.title_cost
model_title_cost(model, level, span) == title_cost(model.text_style, level, span)

-----------------------------------------------------------------------------
(* Notes are records; an attribute a note lacks is a missing field (getattr default) *)

NoteAttr(note, attr, default) == IF attr \in DOMAIN note THEN note[attr] ELSE default

_chars_for_note(note) == NoteAttr(note, "chars_body", 0)

_resolve_title_level(note, st) ==
    IF "title_level" \notin DOMAIN note THEN st.default_title_level
    ELSE IF note.title_level > 0 THEN note.title_level ELSE st.default_title_level

\* returns <<img_mode, image_height>>
_resolve_image_mode(note, model, st) ==
    LET presets == model.image_presets
        fallback ==
            IF st.default_image_preset # NoPreset /\ HasPreset(model, st.default_image_preset)
            THEN LET p == GetPreset(model, st.default_image_preset) IN <<p.name, preset_cost(p, 0)>>
            ELSE IF presets = <<>> THEN <<"none", 0>>
            ELSE <<presets[1].name, preset_cost(presets[1], 0)>>
        raw_mode == NoteAttr(note, "image_mode", NoPreset)
        count == NoteAttr(note, "image_count", 0)
    IN IF presets = <<>> THEN <<"none", 0>>
       ELSE IF raw_mode # NoPreset /\ HasPreset(model, raw_mode)
            THEN LET p == GetPreset(model, raw_mode) IN <<p.name, preset_cost(p, 0)>>
       ELSE IF count <= 0 THEN <<"none", 0>>
       ELSE fallback

\* a number of lines: height_mm * lines_per_mm, kept as the fraction <<height_mm, mm_per_line>>
Lines(height_mm, mm_per_line) == <<height_mm, mm_per_line>>

\* mutant: the overflow is not tagged in the penalty map
FallbackPenalties_untagged(overflow, img_mode) ==
    LET keys == IF img_mode = "none" THEN {"missing_image"} ELSE {}
    IN [k \in keys |-> 1]

\* lines 393-397: the penalty map of the fallback footprint
FallbackPenalties(overflow, img_mode) ==
    LET keys == (IF overflow # 0 THEN {"overflow_chars"} ELSE {})
                \cup (IF img_mode = "none" THEN {"missing_image"} ELSE {})
    IN [k \in keys |-> IF k = "overflow_chars" THEN overflow ELSE 1]

_build_fallback_variants(note, model, col_height, st) ==
    LET title_level == _resolve_title_level(note, st)
        title_height == IF title_level # 0 THEN model_title_cost(model, title_level, 1) ELSE 0
        img == _resolve_image_mode(note, model, st)
        img_mode == img[1]
        image_height == img[2]
        mm_per_line == model.text_style.mm_per_line
        chars_per_line == IF model.text_style.chars_per_line = 0 THEN 1 ELSE model.text_style.chars_per_line
        body_chars == _chars_for_note(note)
        available_body_height == Max2(col_height - title_height - image_height, 0)
        body_height ==
            IF body_chars > 0 /\ chars_per_line > 0
            THEN LET required_lines == CeilDiv(body_chars, chars_per_line)
                     required_height == required_lines * mm_per_line
                 IN Min2(required_height, available_body_height)
            ELSE 0
        capacity_chars == capacity_for_height(model.text_style, body_height)
        body_chars_fit == Min2(capacity_chars, body_chars)
        overflow == Max2(body_chars - body_chars_fit, 0)
        penalties == FallbackPenalties(overflow, img_mode)
        footprint ==
            [span |-> 1,
             column_heights_mm |-> <<title_height + image_height + body_height>>,
             column_body_heights_mm |-> <<body_height>>,
             column_title_heights_mm |-> <<title_height>>,
             column_image_heights_mm |-> <<image_height>>,
             penalties |-> penalties,
             image_priority |-> 0,
             image_preset |-> IF img_mode = "none" THEN NoPreset ELSE img_mode]
        variant ==
            [note_id |-> NoteAttr(note, "note_id", 0),
             title_span |-> IF title_height # 0 THEN 1 ELSE 0,
             span |-> 1,
             image_preset |-> IF img_mode = "none" THEN NoPreset ELSE img_mode,
             total_height_mm |-> title_height + image_height + body_height,
             text_height_mm |-> body_height,
             title_height_mm |-> title_height,
             body_height_mm |-> body_height,
             image_height_mm |-> image_height,
             body_chars_fit |-> body_chars_fit,
             body_chars_overflow |-> overflow,
             title_lines |-> Lines(title_height, mm_per_line),
             body_lines |-> Lines(body_height, mm_per_line),
             image_span |-> IF img_mode # "none" THEN 1 ELSE 0,
             footprint |-> footprint]
    IN <<variant>>

-----------------------------------------------------------------------------
(* Placement evaluation *)

VariantAttr(variant, attr, default) == IF attr \in DOMAIN variant THEN variant[attr] ELSE default

_variant_span(variant) ==
    LET raw == VariantAttr(variant, "span", 1)
        span == IF raw = 0 THEN 1 ELSE raw
    IN Max2(span, 1)

_take_span(values, span) == [i \in 1..span |-> IF i <= Len(values) THEN values[i] ELSE 0]

PenaltyGet(penalties, key) == IF key \in DOMAIN penalties THEN penalties[key] ELSE 0

RECURSIVE SumOver(_, _)
SumOver(f, keys) ==
    IF keys = {} THEN 0
    ELSE LET k == CHOOSE k \in keys : TRUE IN f[k] + SumOver(f, keys \ {k})

RecognizedPenalties ==
    {"overflow_chars", "unused_capacity", "title_mordida_lines", "body_mordida_lines", "missing_image"}

\* score contribution of fit / overflow (lines 267-272)
FitDelta(fit, body_chars_overflow, st) ==
    IF fit THEN st.fit_bonus
    ELSE IF body_chars_overflow > 0 THEN 0 - st.overflow_penalty_per_char * body_chars_overflow
    ELSE 0

\* mutant: a tag the solver does not know is ignored
PenaltyDelta_ignores_unknown(footprint, st) ==
    LET penalties == VariantAttr(footprint, "penalties", <<>>)
    IN 0 - st.unused_capacity_penalty_per_char * PenaltyGet(penalties, "unused_capacity")
         - st.mordida_penalty_per_line * PenaltyGet(penalties, "title_mordida_lines")
         - st.mordida_penalty_per_line * PenaltyGet(penalties, "body_mordida_lines")
         - st.missing_image_penalty * PenaltyGet(penalties, "missing_image")
         + ImagePriorityWeight * VariantAttr(footprint, "image_priority", 0)

\* score contribution of the footprint's penalty map and image priority (lines 274-304)
PenaltyDelta(footprint, st) ==
    LET penalties == VariantAttr(footprint, "penalties", <<>>)
        others == DOMAIN penalties \ RecognizedPenalties
    IN 0 - st.unused_capacity_penalty_per_char * PenaltyGet(penalties, "unused_capacity")
         - st.mordida_penalty_per_line * PenaltyGet(penalties, "title_mordida_lines")
         - st.mordida_penalty_per_line * PenaltyGet(penalties, "body_mordida_lines")
         - st.missing_image_penalty * PenaltyGet(penalties, "missing_image")
         - 100 * SumOver(penalties, others)
         + ImagePriorityWeight * VariantAttr(footprint, "image_priority", 0)

\* mutant: a footprint that runs past the column bottom is accepted
ExceedsColumn_never(end_levels, col_height) == FALSE

\* lines 254-260: some spanned column would end below the column bottom
ExceedsColumn(end_levels, col_height) ==
    \E i \in 1..Len(end_levels) : end_levels[i] - col_height > Tolerance

\* mutant: the room left under the shortest spanned column, not the tallest
RemainingRoom_max(end_levels, col_height) ==
    IF end_levels # <<>>
    THEN 0 - SeqMin([i \in 1..Len(end_levels) |-> 0 - (col_height - end_levels[i])])
    ELSE col_height

\* line 262: min(column_height - end for end in end_levels)
RemainingRoom(end_levels, col_height) ==
    IF end_levels # <<>>
    THEN SeqMin([i \in 1..Len(end_levels) |-> col_height - end_levels[i]])
    ELSE col_height

\* returns <<>> for None, else <<[assignment |-> ..., score_delta |-> ...]>>
_evaluate_variant_placement(note, variant, column_index, start_mm, col_height, st) ==
    LET span == _variant_span(variant)
    IN IF "footprint" \notin DOMAIN variant THEN <<>>
       ELSE
       LET footprint == variant.footprint
           column_heights == _take_span(VariantAttr(footprint, "column_heights_mm", <<>>), span)
           end_levels == [i \in 1..span |-> start_mm + column_heights[i]]
       IN IF ExceedsColumn(end_levels, col_height) THEN <<>>
          ELSE
          LET remaining_mm == RemainingRoom(end_levels, col_height)
              body_chars_overflow == VariantAttr(variant, "body_chars_overflow", 0)
              fit == body_chars_overflow <= 0 /\ remaining_mm >= 0 - Tolerance
              score_delta == FitDelta(fit, body_chars_overflow, st) + PenaltyDelta(footprint, st)
              column_body == _take_span(VariantAttr(footprint, "column_body_heights_mm", <<>>), span)
              column_title == _take_span(VariantAttr(footprint, "column_title_heights_mm", <<>>), span)
              column_image == _take_span(VariantAttr(footprint, "column_image_heights_mm", <<>>), span)
              assignment ==
                  [note |-> note,
                   column_index |-> column_index,
                   span |-> span,
                   start_mm |-> start_mm,
                   used_height_mm |-> VariantAttr(variant, "total_height_mm", SeqMax(column_heights)),
                   column_heights_mm |-> column_heights,
                   column_body_heights_mm |-> column_body,
                   column_title_heights_mm |-> column_title,
                   column_image_heights_mm |-> column_image,
                   title_height_mm |-> VariantAttr(variant, "title_height_mm", SeqMax(column_title)),
                   body_height_mm |-> VariantAttr(variant, "body_height_mm", SeqMax(column_body)),
                   image_height_mm |-> VariantAttr(variant, "image_height_mm", SeqMax(column_image)),
                   body_chars_fit |-> VariantAttr(variant, "body_chars_fit", 0),
                   body_chars_overflow |-> body_chars_overflow,
                   img_mode |-> LET p == VariantAttr(variant, "image_preset", NoPreset)
                                IN IF p = NoPreset THEN "none" ELSE p,
                   fit |-> fit,
                   remaining_mm |-> Max2(remaining_mm, 0),
                   title_lines |-> VariantAttr(variant, "title_lines", Lines(0, 1)),
                   body_lines |-> VariantAttr(variant, "body_lines", Lines(0, 1)),
                   image_span |-> VariantAttr(variant, "image_span", 0)]
          IN <<[assignment |-> assignment, score_delta |-> score_delta]>>

-----------------------------------------------------------------------------
(* _BeamState.  Column c of the code (0-based) is position c + 1 of columns_used_mm. *)

\* mutant: the end level is added onto the column's usage and never capped
push_assignment_accumulate(state, assignment, score_delta, col_height) ==
    LET heights == assignment.column_heights_mm
        Covers(k) == k - 1 >= assignment.column_index
                     /\ k - 1 - assignment.column_index < Len(heights)
    IN [score |-> state.score + score_delta,
        columns_used_mm |-> [k \in 1..Len(state.columns_used_mm) |->
                    IF Covers(k)
                    THEN state.columns_used_mm[k] + assignment.start_mm
                         + heights[k - assignment.column_index]
                    ELSE state.columns_used_mm[k]],
        assignments |-> Append(state.assignments, assignment),
        dropped |-> state.dropped,
        logs |-> Append(state.logs, <<"columna(s)">>)]

push_assignment(state, assignment, score_delta, col_height) ==
    LET heights == assignment.column_heights_mm
        Covers(k) == k - 1 >= assignment.column_index
                     /\ k - 1 - assignment.column_index < Len(heights)
        used == [k \in 1..Len(state.columns_used_mm) |->
                    IF Covers(k)
                    THEN LET start_level == Max2(state.columns_used_mm[k], assignment.start_mm)
                         IN Min2(col_height, start_level + heights[k - assignment.column_index])
                    ELSE state.columns_used_mm[k]]
        first_col == assignment.column_index + 1
        last_col == first_col + assignment.span - 1
        label == IF assignment.span > 1 THEN <<first_col, last_col>> ELSE <<first_col>>
        line == <<"columna(s)", label, NoteAttr(assignment.note, "note_id", "?"), assignment.span,
                  assignment.fit, assignment.remaining_mm, assignment.body_chars_overflow>>
    IN [score |-> state.score + score_delta,
        columns_used_mm |-> used,
        assignments |-> Append(state.assignments, assignment),
        dropped |-> state.dropped,
        logs |-> Append(state.logs, line)]

\* mutant: the dropped note goes to the front of dropped
push_drop_prepends(state, note, penalty, reason) ==
    [score |-> state.score - penalty,
     columns_used_mm |-> state.columns_used_mm,
     assignments |-> state.assignments,
     dropped |-> <<note>> \o state.dropped,
     logs |-> Append(state.logs, <<"descartar nota", NoteAttr(note, "note_id", "?"), reason>>)]

\* mutant: the drop costs nothing
push_drop_no_penalty(state, note, penalty, reason) ==
    [score |-> state.score,
     columns_used_mm |-> state.columns_used_mm,
     assignments |-> state.assignments,
     dropped |-> Append(state.dropped, note),
     logs |-> Append(state.logs, <<"descartar nota", NoteAttr(note, "note_id", "?"), reason>>)]

push_drop(state, note, penalty, reason) ==
    [score |-> state.score - penalty,
     columns_used_mm |-> state.columns_used_mm,
     assignments |-> state.assignments,
     dropped |-> Append(state.dropped, note),
     logs |-> Append(state.logs, <<"descartar nota", NoteAttr(note, "note_id", "?"), reason>>)]

-----------------------------------------------------------------------------
(* Stable sort, as list.sort: the result is the permutation of 1..Len(keys)  *)
(* that orders the keys (tuples of integers, compared lexicographically),     *)
(* descending when reverse; elements with equal keys keep their order.        *)

LexLess(a, b) == \E i \in 1..Len(a) : a[i] < b[i] /\ \A j \in 1..(i - 1) : a[j] = b[j]

SortsBefore(keys, reverse, x, y) ==
    IF reverse THEN LexLess(keys[y], keys[x]) ELSE LexLess(keys[x], keys[y])

\* mutant: an unstable sort, a later element goes before the earlier ones of equal key
InsertSorted_unstable(sorted, k, keys, reverse) ==
    LET pos == Cardinality({i \in 1..Len(sorted) : SortsBefore(keys, reverse, sorted[i], k)})
    IN SubSeq(sorted, 1, pos) \o <<k>> \o SubSeq(sorted, pos + 1, Len(sorted))

InsertSorted(sorted, k, keys, reverse) ==
    LET pos == Cardinality({i \in 1..Len(sorted) : ~SortsBefore(keys, reverse, k, sorted[i])})
    IN SubSeq(sorted, 1, pos) \o <<k>> \o SubSeq(sorted, pos + 1, Len(sorted))

RECURSIVE SortPrefix(_, _, _)
SortPrefix(keys, n, reverse) ==
    IF n = 0 THEN <<>>
    ELSE InsertSorted(SortPrefix(keys, n - 1, reverse), n, keys, reverse)

\* mutant: the reverse flag is ignored
StableSortPerm_ascending(keys, reverse) == SortPrefix(keys, Len(keys), FALSE)

StableSortPerm(keys, reverse) == SortPrefix(keys, Len(keys), reverse)

RECURSIVE Flatten(_)
Flatten(ss) == IF ss = <<>> THEN <<>> ELSE ss[1] \o Flatten(Tail(ss))

-----------------------------------------------------------------------------
(* Variant generation (Prediseño_automatizado.py)                           *)

image_cost(model, name, span) ==
    LET preset == GetPreset(model, name)
    IN preset_cost(preset, IF span # 0 THEN span ELSE preset.span)

\* mutant: an unknown preset name leaves no capacity
capacity_per_column_unknown_fails(model, col_height, span, title_level, image_preset) ==
    LET title_reserved == title_cost(model.text_style, title_level, span)
        image_reserved == IF image_preset # NoPreset /\ HasPreset(model, image_preset)
                          THEN image_cost(model, image_preset, span)
                          ELSE IF image_preset # NoPreset THEN col_height ELSE 0
        available_height == Max2(col_height - (title_reserved + image_reserved), 0)
        per_column == capacity_for_height(model.text_style, available_height)
    IN per_column * Max2(span, 1)

\* an unknown preset name only logs a warning: nothing is reserved for it
capacity_per_column(model, col_height, span, title_level, image_preset) ==
    LET title_reserved == title_cost(model.text_style, title_level, span)
        image_reserved == IF image_preset # NoPreset /\ HasPreset(model, image_preset)
                          THEN image_cost(model, image_preset, span) ELSE 0
        available_height == Max2(col_height - (title_reserved + image_reserved), 0)
        per_column == capacity_for_height(model.text_style, available_height)
    IN per_column * Max2(span, 1)

_image_order_index(image) == IF image = NoPreset THEN 2 ELSE IF image = "vertical" THEN 1 ELSE 0

_image_priority(image) == IF image = NoPreset THEN 0 ELSE IF image = "vertical" THEN 1 ELSE 2

\* chars_body / (chars_per_line * span) / lines_per_mm; the inputs keep the quotient whole
estimate_text_height_mm(note, model, span) ==
    LET chars_per_column == model.text_style.chars_per_line * Max2(span, 1)
    IN IF chars_per_column <= 0 THEN 0
       ELSE (note.chars_body * model.text_style.mm_per_line) \div chars_per_column

ImageOptions(model) ==
    LET presets == model.image_presets
        wide == {i \in 1..Len(presets) : presets[i].span >= 2}
    IN <<NoPreset>>
       \o (IF HasPreset(model, "vertical") THEN <<"vertical">> ELSE <<>>)
       \o (IF HasPreset(model, "horizontal") THEN <<"horizontal">>
           ELSE IF wide = {} THEN <<>>
           ELSE <<presets[CHOOSE i \in wide : \A j \in wide : i <= j].name>>)

BuildVariant(note, model, title_span, image_name, title_level) ==
    LET title_height_total == model_title_cost(model, title_level, title_span)
        title_height_per_column == title_height_total \div title_span
        image_span == IF image_name # NoPreset THEN GetPreset(model, image_name).span ELSE 0
        span == Max2(Max2(title_span, image_span), 1)
        text_height == estimate_text_height_mm(note, model, span)
        image_height_total == IF image_name # NoPreset THEN image_cost(model, image_name, span) ELSE 0
        image_height_per_column == IF image_span # 0 THEN image_height_total \div image_span ELSE 0
        column_heights == [col \in 1..span |->
                              text_height
                              + (IF col - 1 < title_span THEN title_height_per_column ELSE 0)
                              + (IF image_span # 0 /\ col - 1 < image_span
                                 THEN image_height_per_column ELSE 0)]
        total_height == SeqMax(column_heights)
        available_chars == capacity_per_column(model, total_height, span, title_level, image_name)
        overflow == Max2(note.chars_body - available_chars, 0)
        slack == Max2(available_chars - note.chars_body, 0)
        keys == (IF overflow # 0 THEN {"overflow_chars"} ELSE {})
                \cup (IF slack # 0 THEN {"unused_capacity"} ELSE {})
                \cup (IF image_name = NoPreset THEN {"missing_image"} ELSE {})
        penalties == [k \in keys |-> IF k = "overflow_chars" THEN overflow
                                     ELSE IF k = "unused_capacity" THEN slack ELSE 1]
    IN [note_id |-> note.note_id,
        title_span |-> title_span,
        span |-> span,
        image_preset |-> image_name,
        total_height_mm |-> total_height,
        text_height_mm |-> text_height,
        footprint |-> [span |-> span,
                       column_heights_mm |-> column_heights,
                       penalties |-> penalties,
                       image_priority |-> _image_priority(image_name),
                       image_preset |-> image_name]]

preference_key(variant) ==
    <<variant.title_span, _image_order_index(variant.image_preset), variant.total_height_mm>>

generate_note_variants(note, model, title_spans, title_level) ==
    LET options == ImageOptions(model)
        spans == SelectSeq(title_spans, LAMBDA ts : ts > 0)
        unsorted == Flatten([t \in 1..Len(spans) |->
                        [o \in 1..Len(options) |->
                            BuildVariant(note, model, spans[t], options[o], title_level)]])
        order == StableSortPerm([i \in 1..Len(unsorted) |-> preference_key(unsorted[i])], FALSE)
    IN [i \in 1..Len(unsorted) |-> unsorted[order[i]]]

\* keyed by note_id, which for the notes of the model is the position in the list
generate_variants_for_notes(ns, model) ==
    [i \in 1..Len(ns) |-> generate_note_variants(ns[i], model, <<1, 2>>, 1)]

-----------------------------------------------------------------------------
(* Variant source of a note *)

\* A note id or catalog key is the integer n (below TextBase), the decimal text of n,
\* written TextBase + n, or a text that is no number (2 * TextBase and above).
TextBase == 100

\* int(note_id): <<>> when it raises ValueError
IntOfKey(key) ==
    IF key < TextBase THEN <<key>>
    ELSE IF key < 2 * TextBase THEN <<key - TextBase>>
    ELSE <<>>

\* str(note_id)
StrOfKey(key) == IF key < TextBase THEN <<key + TextBase>> ELSE <<key>>

\* mutant: the id is looked up as given only
_lookup_variants_as_given(note_id, catalog) ==
    IF note_id \in DOMAIN catalog THEN catalog[note_id] ELSE <<>>

_lookup_variants(note_id, catalog) ==
    IF note_id \in DOMAIN catalog THEN catalog[note_id]
    ELSE LET candidates == IntOfKey(note_id) \o StrOfKey(note_id)
             found == SelectSeq(candidates, LAMBDA key : key \in DOMAIN catalog)
         IN IF found # <<>> THEN catalog[found[1]] ELSE <<>>

_variants_for_note(note, catalog, model, col_height, st) ==
    LET candidates == IF catalog # <<>> /\ "note_id" \in DOMAIN note
                      THEN _lookup_variants(note.note_id, catalog) ELSE <<>>
    IN IF candidates # <<>> THEN candidates
       ELSE _build_fallback_variants(note, model, col_height, st)

-----------------------------------------------------------------------------
(* solve_page_layout *)

InitialState(cols) ==
    [score |-> 0,
     columns_used_mm |-> [k \in 1..cols |-> 0],
     assignments |-> <<>>,
     dropped |-> <<>>,
     logs |-> <<>>]

\* mutant: the penalty is charged once, not once per note
DegenerateOutcome_single_penalty(cols, col_height, ns, st) ==
    [assignments |-> <<>>,
     dropped_notes |-> ns,
     column_usage_mm |-> [k \in 1..Max2(cols, 0) |-> 0],
     column_gaps_mm |-> [k \in 1..Max2(cols, 0) |-> col_height],
     logs |-> <<"sin columnas disponibles; todas las notas quedan pendientes">>,
     score |-> 0 - st.drop_penalty]

DegenerateOutcome(cols, col_height, ns, st) ==
    [assignments |-> <<>>,
     dropped_notes |-> ns,
     column_usage_mm |-> [k \in 1..Max2(cols, 0) |-> 0],
     column_gaps_mm |-> [k \in 1..Max2(cols, 0) |-> col_height],
     logs |-> <<"sin columnas disponibles; todas las notas quedan pendientes">>,
     score |-> (0 - st.drop_penalty) * Len(ns)]

\* used_slice = state.columns_used_mm[col_idx : col_idx + span]; a slice stops at the end of the tuple
UsedSlice(state, col_idx, span) ==
    SubSeq(state.columns_used_mm, col_idx + 1, Min2(col_idx + span, Len(state.columns_used_mm)))

\* mutant: the placement starts at the level of its lowest column
StartLevel_lowest(state, col_idx, span) ==
    LET used_slice == UsedSlice(state, col_idx, span)
    IN IF used_slice = <<>> THEN 0 ELSE SeqMin(used_slice)

\* mutant: the placement starts at the level of its first column
StartLevel_first_column(state, col_idx, span) ==
    LET used_slice == UsedSlice(state, col_idx, span)
    IN IF used_slice = <<>> THEN 0 ELSE used_slice[1]

\* start_mm = max(used_slice) if used_slice else 0.0
StartLevel(state, col_idx, span) ==
    LET used_slice == UsedSlice(state, col_idx, span)
    IN IF used_slice = <<>> THEN 0 ELSE SeqMax(used_slice)

\* mutant: every column is tried as a start column, whatever the span
PlacementSlots_any_start(state, note_variants, cols) ==
    Flatten([v \in 1..Len(note_variants) |-> [c \in 1..cols |-> <<v, c - 1>>]])

\* the (variant, start column) pairs in the order the loops visit them
PlacementSlots(state, note_variants, cols) ==
    Flatten([v \in 1..Len(note_variants) |->
        LET span == _variant_span(note_variants[v])
        IN IF span > cols THEN <<>>
           ELSE SelectSeq([c \in 1..(cols - span + 1) |-> <<v, c - 1>>],
                          LAMBDA slot : Len(UsedSlice(state, slot[2], span)) >= span)])

\* mutant: an evaluation of height 0 is kept as a placement
ExpandOne_keeps_zero_height(state, note, note_variants, cols, col_height, st) ==
    LET slots == PlacementSlots(state, note_variants, cols)
        evals == [i \in 1..Len(slots) |->
                    LET variant == note_variants[slots[i][1]]
                        col_idx == slots[i][2]
                    IN _evaluate_variant_placement(note, variant, col_idx,
                           StartLevel(state, col_idx, _variant_span(variant)), col_height, st)]
        kept == SelectSeq(evals, LAMBDA e : e # <<>>)
        placed == kept # <<>>
    IN IF placed
       THEN [i \in 1..Len(kept) |->
                push_assignment(state, kept[i][1].assignment, kept[i][1].score_delta, col_height)]
       ELSE <<push_drop(state, note, st.drop_penalty, "sin espacio")>>

\* mutant: the drop is a candidate of every expansion, next to the placements
ExpandOne_always_drops(state, note, note_variants, cols, col_height, st) ==
    LET slots == PlacementSlots(state, note_variants, cols)
        evals == [i \in 1..Len(slots) |->
                    LET variant == note_variants[slots[i][1]]
                        col_idx == slots[i][2]
                    IN _evaluate_variant_placement(note, variant, col_idx,
                           StartLevel(state, col_idx, _variant_span(variant)), col_height, st)]
        kept == SelectSeq(evals, LAMBDA e : e # <<>> /\ e[1].assignment.used_height_mm > 0)
    IN [i \in 1..Len(kept) |->
            push_assignment(state, kept[i][1].assignment, kept[i][1].score_delta, col_height)]
       \o <<push_drop(state, note, st.drop_penalty, "sin espacio")>>

\* the states one beam state adds to new_states for a note (body of "for state in beam")
ExpandOne(state, note, note_variants, cols, col_height, st) ==
    LET slots == PlacementSlots(state, note_variants, cols)
        evals == [i \in 1..Len(slots) |->
                    LET variant == note_variants[slots[i][1]]
                        col_idx == slots[i][2]
                    IN _evaluate_variant_placement(note, variant, col_idx,
                           StartLevel(state, col_idx, _variant_span(variant)), col_height, st)]
        kept == SelectSeq(evals, LAMBDA e : e # <<>> /\ e[1].assignment.used_height_mm > 0)
        placed == kept # <<>>
    IN IF placed
       THEN [i \in 1..Len(kept) |->
                push_assignment(state, kept[i][1].assignment, kept[i][1].score_delta, col_height)]
       ELSE <<push_drop(state, note, st.drop_penalty, "sin espacio")>>

\* mutant: the slice keeps one state too many
Truncate_one_more(states, width) ==
    LET stop == IF width < 0 THEN Max2(Len(states) + width, 0) ELSE Min2(width, Len(states))
    IN SubSeq(states, 1, Min2(stop + 1, Len(states)))

\* new_states[: beam_width]; a negative stop of a slice counts from the end of the list
Truncate(states, width) ==
    LET stop == IF width < 0 THEN Max2(Len(states) + width, 0) ELSE Min2(width, Len(states))
    IN SubSeq(states, 1, stop)

\* gaps and adjusted score of a surviving state (lines 527-536)
Gaps(state, col_height) ==
    [k \in 1..Len(state.columns_used_mm) |-> Max2(col_height - state.columns_used_mm[k], 0)]

\* mutant: no penalty for the imbalance between the column gaps
FinalScore_no_imbalance(state, col_height, st) ==
    state.score - st.final_gap_penalty_per_mm * SeqSum(Gaps(state, col_height))

FinalScore(state, col_height, st) ==
    LET gaps == Gaps(state, col_height)
        total_gap == SeqSum(gaps)
        imbalance == IF gaps # <<>> /\ st.gap_penalty_per_mm > 0
                     THEN SeqMax(gaps) - SeqMin(gaps) ELSE 0
        penalty == st.final_gap_penalty_per_mm * total_gap
                   + (IF imbalance > 0 THEN st.gap_penalty_per_mm * imbalance ELSE 0)
    IN state.score - penalty

\* index of best_state after the first n states of the beam, 0 while best_state is None
RECURSIVE BestIndex(_, _, _, _)
BestIndex(states, n, col_height, st) ==
    IF n = 0 THEN 0
    ELSE LET prev == BestIndex(states, n - 1, col_height, st)
         IN IF prev = 0 THEN n
            ELSE IF FinalScore(states[n], col_height, st) > FinalScore(states[prev], col_height, st)
                 THEN n ELSE prev

\* mutant: the outcome reports the search score of the selected state
BuildOutcome_raw_score(states, cols, col_height, st) ==
    LET best == BestIndex(states, Len(states), col_height, st)
        best_state == IF best = 0 THEN InitialState(cols) ELSE states[best]
        column_gaps == Gaps(best_state, col_height)
    IN [assignments |-> best_state.assignments,
        dropped_notes |-> best_state.dropped,
        column_usage_mm |-> best_state.columns_used_mm,
        column_gaps_mm |-> column_gaps,
        logs |-> Append(best_state.logs, <<"huecos finales", column_gaps>>),
        score |-> best_state.score]

BuildOutcome(states, cols, col_height, st) ==
    LET best == BestIndex(states, Len(states), col_height, st)
        best_state == IF best = 0 THEN InitialState(cols) ELSE states[best]
        best_score == IF best = 0 THEN InitialState(cols).score
                      ELSE FinalScore(best_state, col_height, st)
        column_gaps == Gaps(best_state, col_height)
    IN [assignments |-> best_state.assignments,
        dropped_notes |-> best_state.dropped,
        column_usage_mm |-> best_state.columns_used_mm,
        column_gaps_mm |-> column_gaps,
        logs |-> Append(best_state.logs, <<"huecos finales", column_gaps>>),
        score |-> best_score]

-----------------------------------------------------------------------------
(* Inputs *)

PlainModel ==
    [text_style |-> [chars_per_line |-> 20, mm_per_line |-> 2, title_heights_mm |-> <<>>],
     image_presets |-> <<>>]

RichModel ==
    [text_style |-> [chars_per_line |-> 20, mm_per_line |-> 2, title_heights_mm |-> <<2>>],
     image_presets |-> <<[name |-> "vertical", span |-> 1, height_mm |-> 2]>>]

CapacityModels == {PlainModel, RichModel}

ColumnHeights == {0, 12}

NoteKinds ==
    {[chars_body |-> 0], [chars_body |-> 40], [chars_body |-> 100, image_count |-> 1]}

\* note i of the list: its identity ref and its note_id are its position
NoteLists ==
    UNION {{[i \in 1..n |-> [ref |-> i, note_id |-> i] @@ kinds[i]] : kinds \in [1..n -> NoteKinds]}
           : n \in 0..MaxNotes}

\* no catalog, the generated catalog of the first note only, or that of all the notes
Catalogs(ns, model) ==
    {generate_variants_for_notes(SubSeq(ns, 1, k), model) : k \in {0, Min2(1, Len(ns)), Len(ns)}}

Init ==
    /\ columns \in 0..MaxColumns
    /\ column_height \in ColumnHeights
    /\ notes \in NoteLists
    /\ capacity_model \in CapacityModels
    /\ settings \in {PlanSettings(bw) : bw \in 0..MaxBeamWidth}
    /\ variants_by_note \in Catalogs(notes, capacity_model)
    /\ pc = "start"
    /\ note_idx = 0
    /\ state_idx = 0
    /\ beam = <<>>
    /\ new_states = <<>>
    /\ generated = <<>>
    /\ perm = <<>>
    /\ rounds = 0
    /\ outcome = <<>>
    /\ call = NoCall
    /\ result = <<>>

\* Scenarios A and B of the repository test: equal notes, the test's capacity model,
\* default settings, no catalog, a page of 2 columns (A) or none (B)
ScenarioChars == {10, 50, 100, 600, 620}

ScenarioColumnHeight == 120

InitScenario ==
    /\ columns \in {0, 2}
    /\ column_height = ScenarioColumnHeight
    /\ notes \in {[i \in 1..n |-> [ref |-> i, note_id |-> i, chars_body |-> c]] :
                     n \in 0..MaxScenarioNotes, c \in ScenarioChars}
    /\ capacity_model = PlainModel
    /\ settings = PlanSettings(DefaultBeamWidth)
    /\ variants_by_note = NoCatalog
    /\ pc = "start"
    /\ note_idx = 0
    /\ state_idx = 0
    /\ beam = <<>>
    /\ new_states = <<>>
    /\ generated = <<>>
    /\ perm = <<>>
    /\ rounds = 0
    /\ outcome = <<>>
    /\ call = NoCall
    /\ result = <<>>

\* notes that lack optional attributes or carry unusable ones: no attribute at all, a
\* title level that is not positive, a preset name the model does not have (with and
\* without an image count), a known preset name, an image count alone
AttrKinds ==
    {[note_id |-> 0],
     [chars_body |-> 40, title_level |-> 0],
     [chars_body |-> 40, title_level |-> 1, image_mode |-> "desconocido"],
     [chars_body |-> 40, image_mode |-> "desconocido", image_count |-> 1],
     [chars_body |-> 40, image_mode |-> "vertical"],
     [chars_body |-> 40, image_count |-> 1]}

InitAttrs ==
    /\ columns \in 1..MaxColumns
    /\ column_height = 12
    /\ notes \in UNION {{[i \in 1..n |-> [ref |-> i, note_id |-> i] @@ kinds[i]] :
                            kinds \in [1..n -> AttrKinds]} : n \in 0..MaxAttrNotes}
    /\ capacity_model \in CapacityModels
    /\ settings \in {PlanSettings(bw) : bw \in 1..MaxBeamWidth}
    /\ variants_by_note = NoCatalog
    /\ pc = "start"
    /\ note_idx = 0
    /\ state_idx = 0
    /\ beam = <<>>
    /\ new_states = <<>>
    /\ generated = <<>>
    /\ perm = <<>>
    /\ rounds = 0
    /\ outcome = <<>>
    /\ call = NoCall
    /\ result = <<>>

\* a drop that costs nothing, and the default of 10.0
DropPenalties == {0, 1000}

\* pages with columns, no catalog, and settings in which dropping is free or dear
InitDropPenalty ==
    /\ columns \in 1..MaxColumns
    /\ column_height = 12
    /\ notes \in NoteLists
    /\ capacity_model \in CapacityModels
    /\ settings \in {[PlanSettings(bw) EXCEPT !.drop_penalty = dp] :
                        bw \in {1, MaxBeamWidth}, dp \in DropPenalties}
    /\ variants_by_note = NoCatalog
    /\ pc = "start"
    /\ note_idx = 0
    /\ state_idx = 0
    /\ beam = <<>>
    /\ new_states = <<>>
    /\ generated = <<>>
    /\ perm = <<>>
    /\ rounds = 0
    /\ outcome = <<>>
    /\ call = NoCall
    /\ result = <<>>

\* penalty maps of hand-made catalog variants: none, each tag the solver weighs, tags it
\* does not know ("huerfanas", "viudas"), and an overflow tag
PenaltyMaps ==
    {<<>>,
     [unused_capacity |-> 10],
     [title_mordida_lines |-> 1, body_mordida_lines |-> 2],
     [missing_image |-> 1, huerfanas |-> 3],
     [overflow_chars |-> 5, unused_capacity |-> 4, viudas |-> 2, huerfanas |-> 1]}

\* a catalog variant of 4 mm per column carrying a penalty map, with or without a
\* body_chars_overflow attribute (overflow = 0 stands for a variant without it)
TaggedVariant(note_id, span, penalties, priority, overflow) ==
    LET base == [note_id |-> note_id, title_span |-> 1, span |-> span, image_preset |-> NoPreset,
                 total_height_mm |-> 4, text_height_mm |-> 4,
                 footprint |-> [span |-> span, column_heights_mm |-> [k \in 1..span |-> 4],
                                penalties |-> penalties, image_priority |-> priority,
                                image_preset |-> NoPreset]]
    IN IF overflow = 0 THEN base ELSE base @@ [body_chars_overflow |-> overflow]

\* equal notes of 40 characters whose catalog entries hold one tagged variant of one kind
\* and a plain one
InitTagged ==
    /\ columns \in 1..MaxColumns
    /\ column_height = 12
    /\ notes \in {[i \in 1..n |-> [ref |-> i, note_id |-> i, chars_body |-> 40]] : n \in 0..MaxTaggedNotes}
    /\ capacity_model = PlainModel
    /\ settings \in {PlanSettings(bw) : bw \in 1..MaxBeamWidth}
    /\ variants_by_note \in
          {[i \in 1..Len(notes) |-> <<TaggedVariant(i, sp, pm, pr, ov), TaggedVariant(i, 1, <<>>, 0, 0)>>] :
              sp \in 1..2, pm \in PenaltyMaps, pr \in {0, 2}, ov \in {0, 7}}
    /\ pc = "start"
    /\ note_idx = 0
    /\ state_idx = 0
    /\ beam = <<>>
    /\ new_states = <<>>
    /\ generated = <<>>
    /\ perm = <<>>
    /\ rounds = 0
    /\ outcome = <<>>
    /\ call = NoCall
    /\ result = <<>>

\* a call of one function of the capacity model on its own; solve_page_layout is not running
TextStyles ==
    {[chars_per_line |-> c, mm_per_line |-> m, title_heights_mm |-> <<2>>] : c \in {3, 20}, m \in {1, 2, 4}}

\* a capacity model with a preset of span 1 and one of span 2, of heights that keep
\* height_mm * requested_span / preset.span whole
LibraryModel ==
    [text_style |-> [chars_per_line |-> 20, mm_per_line |-> 2, title_heights_mm |-> <<2>>],
     image_presets |-> <<[name |-> "vertical", span |-> 1, height_mm |-> 2],
                         [name |-> "horizontal", span |-> 2, height_mm |-> 4]>>]

PresetNames == {"vertical", "horizontal", "desconocido"}

\* capacity models for the variant generator: vertical and horizontal presets, a vertical
\* preset alone, no preset, a wide preset of another name, and a wide vertical preset
WideModel ==
    [text_style |-> [chars_per_line |-> 20, mm_per_line |-> 2, title_heights_mm |-> <<2>>],
     image_presets |-> <<[name |-> "vertical", span |-> 1, height_mm |-> 2],
                         [name |-> "panoramica", span |-> 2, height_mm |-> 4]>>]

\* a vertical preset over 2 columns and no horizontal preset
WideVerticalModel ==
    [text_style |-> [chars_per_line |-> 20, mm_per_line |-> 2, title_heights_mm |-> <<2>>],
     image_presets |-> <<[name |-> "vertical", span |-> 2, height_mm |-> 4]>>]

VariantModels == {LibraryModel, RichModel, PlainModel, WideModel, WideVerticalModel}

\* body lengths that keep the text height whole for the spans 1, 2 and 3
VariantChars == {0, 60, 120}

\* title_spans arguments: the default, one with a span that is not positive, a wide one
TitleSpanLists == {<<1, 2>>, <<2, 0, 1>>, <<3>>}

\* notes for the variant lookup: an integer id, the same id as text, a text that is no
\* number, and a note without note_id
LookupNotes ==
    {[chars_body |-> 40, note_id |-> 1],
     [chars_body |-> 40, note_id |-> TextBase + 1],
     [chars_body |-> 40, note_id |-> 2 * TextBase + 1],
     [chars_body |-> 40]}

\* catalogs for the variant lookup: none (or an empty mapping), entries under the integer 1,
\* under the text "1", under both (one of them empty, or both filled), under other keys
LookupCatalogs ==
    LET wide == <<TaggedVariant(1, 2, <<>>, 0, 0), TaggedVariant(1, 1, <<>>, 0, 0)>>
        tall == <<TaggedVariant(1, 1, [unused_capacity |-> 10], 2, 0)>>
    IN {NoCatalog,
        1 :> wide,
        (TextBase + 1) :> wide,
        1 :> <<>>,
        (1 :> <<>>) @@ ((TextBase + 1) :> tall),
        (1 :> wide) @@ ((TextBase + 1) :> tall),
        (2 :> wide) @@ ((TextBase + 2) :> tall),
        (2 * TextBase + 1) :> tall}

\* span = 0 stands for span=None, title_level = 0 for title_level=None
Calls ==
    {[fn |-> "capacity_for_height", style |-> st, height_mm |-> h] :
        st \in TextStyles, h \in (0 - 2)..MaxHeightMm}
    \cup {[fn |-> "image_cost", model |-> LibraryModel, name |-> nm, span |-> sp] :
             nm \in PresetNames, sp \in 0..MaxSpan}
    \cup {[fn |-> "capacity_per_column", model |-> LibraryModel, column_height_mm |-> 2 * h,
           span |-> sp, title_level |-> lv, image_preset |-> nm] :
             h \in 0..MaxHeightMm, sp \in 1..MaxSpan, lv \in {0, 1},
             nm \in PresetNames \cup {NoPreset}}
    \cup {[fn |-> "generate_note_variants", note |-> [note_id |-> 1, chars_body |-> c],
           model |-> m, title_spans |-> ts, title_level |-> lv] :
             c \in VariantChars, m \in VariantModels, ts \in TitleSpanLists, lv \in {1, 2}}
    \cup {[fn |-> "_variants_for_note", note |-> n, variants_by_note |-> cat, capacity_model |-> m,
           column_height |-> h, settings |-> PlanSettings(DefaultBeamWidth)] :
             n \in LookupNotes, cat \in LookupCatalogs, m \in CapacityModels, h \in {2, 12}}

InitLibrary ==
    /\ call \in Calls
    /\ result = <<>>
    /\ columns = 0
    /\ column_height = 0
    /\ notes = <<>>
    /\ capacity_model = PlainModel
    /\ settings = PlanSettings(DefaultBeamWidth)
    /\ variants_by_note = NoCatalog
    /\ pc = "idle"
    /\ note_idx = 0
    /\ state_idx = 0
    /\ beam = <<>>
    /\ new_states = <<>>
    /\ generated = <<>>
    /\ perm = <<>>
    /\ rounds = 0
    /\ outcome = <<>>

-----------------------------------------------------------------------------
(* Steps of solve_page_layout *)

\* lines 460-485: the degenerate return, or the initial beam
Start ==
    /\ pc = "start"
    /\ IF columns <= 0 \/ column_height <= 0
       THEN /\ outcome' = DegenerateOutcome(columns, column_height, notes, settings)
            /\ pc' = "done"
            /\ UNCHANGED <<beam, note_idx>>
       ELSE /\ beam' = <<InitialState(columns)>>
            /\ note_idx' = 1
            /\ pc' = "round"
            /\ UNCHANGED outcome
    /\ UNCHANGED <<inputs, library, state_idx, new_states, generated, perm, rounds>>

\* lines 487-489: the next note, with an empty new_states
BeginRound ==
    /\ pc = "round"
    /\ note_idx <= Len(notes)
    /\ new_states' = <<>>
    /\ state_idx' = 1
    /\ pc' = "expand"
    /\ UNCHANGED <<inputs, library, note_idx, beam, generated, perm, rounds, outcome>>

\* lines 490-517: one beam state is expanded for the note
ExpandState ==
    /\ pc = "expand"
    /\ state_idx <= Len(beam)
    /\ LET note == notes[note_idx]
           note_variants == _variants_for_note(note, variants_by_note, capacity_model,
                                               column_height, settings)
       IN new_states' = new_states \o ExpandOne(beam[state_idx], note, note_variants,
                                                columns, column_height, settings)
    /\ state_idx' = state_idx + 1
    /\ UNCHANGED <<inputs, library, pc, note_idx, beam, generated, perm, rounds, outcome>>

\* mutant: the loop skips the note after the one just expanded
EndRound_skips_note ==
    /\ pc = "expand"
    /\ state_idx > Len(beam)
    /\ IF new_states = <<>>
       THEN /\ beam' = [i \in 1..Len(beam) |->
                           push_drop(beam[i], notes[note_idx], settings.drop_penalty, "sin candidatos")]
            /\ perm' = <<>>
            /\ UNCHANGED new_states
       ELSE LET order == StableSortPerm([i \in 1..Len(new_states) |-> <<new_states[i].score>>], TRUE)
                sorted == [i \in 1..Len(new_states) |-> new_states[order[i]]]
            IN /\ new_states' = sorted
               /\ perm' = order
               /\ beam' = Truncate(sorted, settings.beam_width)
    /\ generated' = new_states
    /\ rounds' = rounds + 1
    /\ note_idx' = note_idx + 2
    /\ pc' = "round"
    /\ UNCHANGED <<inputs, library, state_idx, outcome>>

\* lines 518-522: the round ends, new_states is sorted in place and cut to beam_width
EndRound ==
    /\ pc = "expand"
    /\ state_idx > Len(beam)
    /\ IF new_states = <<>>
       THEN /\ beam' = [i \in 1..Len(beam) |->
                           push_drop(beam[i], notes[note_idx], settings.drop_penalty, "sin candidatos")]
            /\ perm' = <<>>
            /\ UNCHANGED new_states
       ELSE LET order == StableSortPerm([i \in 1..Len(new_states) |-> <<new_states[i].score>>], TRUE)
                sorted == [i \in 1..Len(new_states) |-> new_states[order[i]]]
            IN /\ new_states' = sorted
               /\ perm' = order
               /\ beam' = Truncate(sorted, settings.beam_width)
    /\ generated' = new_states
    /\ rounds' = rounds + 1
    /\ note_idx' = note_idx + 1
    /\ pc' = "round"
    /\ UNCHANGED <<inputs, library, state_idx, outcome>>

\* lines 524-560: final selection and return
FinalSelect ==
    /\ pc = "round"
    /\ note_idx > Len(notes)
    /\ outcome' = BuildOutcome(beam, columns, column_height, settings)
    /\ pc' = "done"
    /\ UNCHANGED <<inputs, library, note_idx, state_idx, beam, new_states, generated, perm, rounds>>

Next == Start \/ BeginRound \/ ExpandState \/ EndRound \/ FinalSelect

Spec == Init /\ [][Next]_vars

SpecScenario == InitScenario /\ [][Next]_vars

SpecAttrs == InitAttrs /\ [][Next]_vars

SpecTagged == InitTagged /\ [][Next]_vars

SpecDropPenalty == InitDropPenalty /\ [][Next]_vars

solver == <<inputs, pc, note_idx, state_idx, beam, new_states, generated, perm, rounds, outcome>>

\* TextStyle.capacity_for_height(height_mm)
CallCapacityForHeight ==
    /\ call.fn = "capacity_for_height"
    /\ result = <<>>
    /\ result' = <<"return", capacity_for_height(call.style, call.height_mm)>>
    /\ UNCHANGED <<solver, call>>

\* CapacityModel.image_cost(name, span): KeyError for a name that is not configured
CallImageCost ==
    /\ call.fn = "image_cost"
    /\ result = <<>>
    /\ result' = IF HasPreset(call.model, call.name)
                 THEN <<"return", image_cost(call.model, call.name, call.span)>>
                 ELSE <<"raise", "KeyError">>
    /\ UNCHANGED <<solver, call>>

\* CapacityModel.capacity_per_column(column_height_mm, span, title_level, image_preset)
CallCapacityPerColumn ==
    /\ call.fn = "capacity_per_column"
    /\ result = <<>>
    /\ result' = <<"return", capacity_per_column(call.model, call.column_height_mm, call.span,
                                                call.title_level, call.image_preset)>>
    /\ UNCHANGED <<solver, call>>

\* generate_note_variants(note, model, title_spans, title_level)
CallGenerateNoteVariants ==
    /\ call.fn = "generate_note_variants"
    /\ result = <<>>
    /\ result' = <<"return", generate_note_variants(call.note, call.model, call.title_spans,
                                                   call.title_level)>>
    /\ UNCHANGED <<solver, call>>

\* _variants_for_note(note, variants_by_note, capacity_model, column_height, settings)
CallVariantsForNote ==
    /\ call.fn = "_variants_for_note"
    /\ result = <<>>
    /\ result' = <<"return", _variants_for_note(call.note, call.variants_by_note, call.capacity_model,
                                               call.column_height, call.settings)>>
    /\ UNCHANGED <<solver, call>>

NextLibrary ==
    \/ CallCapacityForHeight
    \/ CallImageCost
    \/ CallCapacityPerColumn
    \/ CallGenerateNoteVariants
    \/ CallVariantsForNote

SpecLibrary == InitLibrary /\ [][NextLibrary]_vars

-----------------------------------------------------------------------------
(* The single-column solver src/solver.py, which run_pipeline imports.  It uses *)
(* the variables of solve_page_layout above; its notes have no catalog.         *)

LegacyPlanSettings(bw) ==
    [beam_width |-> bw,
     fit_bonus |-> 600,
     gap_penalty_per_mm |-> 25,
     overflow_penalty_per_char |-> 8,
     overfill_penalty_per_mm |-> 100,
     drop_penalty |-> 1200,
     final_gap_penalty_per_mm |-> 35,
     default_title_level |-> 1,
     default_image_preset |-> NoPreset]

\* used[idx] = min(column_height, used[idx] + assignment.used_height_mm)
with_assignment(state, assignment, score_delta, col_height) ==
    [score |-> state.score + score_delta,
     columns_used_mm |-> [k \in 1..Len(state.columns_used_mm) |->
                             IF k - 1 = assignment.column_index
                             THEN Min2(col_height, state.columns_used_mm[k] + assignment.used_height_mm)
                             ELSE state.columns_used_mm[k]],
     assignments |-> Append(state.assignments, assignment),
     dropped |-> state.dropped,
     logs |-> Append(state.logs, <<"columna", assignment.column_index + 1,
                                   NoteAttr(assignment.note, "note_id", "?"), assignment.fit,
                                   assignment.remaining_mm, assignment.body_chars_overflow>>)]

with_drop(state, note, penalty) ==
    [score |-> state.score - penalty,
     columns_used_mm |-> state.columns_used_mm,
     assignments |-> state.assignments,
     dropped |-> Append(state.dropped, note),
     logs |-> Append(state.logs, <<"descartar nota", NoteAttr(note, "note_id", "?")>>)]

\* chars / (chars_per_line * lines_per_mm); the inputs keep the quotient whole
_body_height_from_chars(chars, model) ==
    IF model.text_style.chars_per_line <= 0 THEN 0
    ELSE (chars * model.text_style.mm_per_line) \div model.text_style.chars_per_line

\* returns <<img_mode, image_height>>
_select_image_preset(note, model, st) ==
    IF NoteAttr(note, "image_count", 0) <= 0 THEN <<"none", 0>>
    ELSE IF st.default_image_preset # NoPreset /\ HasPreset(model, st.default_image_preset)
         THEN LET p == GetPreset(model, st.default_image_preset) IN <<p.name, preset_cost(p, 0)>>
    ELSE IF model.image_presets = <<>> THEN <<"none", 0>>
    ELSE <<model.image_presets[1].name, preset_cost(model.image_presets[1], 0)>>

\* mutant: the height is not cut to the room of the column
LegacyUsedHeight_uncut(title_height_mm, image_height_mm, body_height_mm, available_mm) ==
    Max2(title_height_mm + image_height_mm + body_height_mm, 0)

\* lines 143-145: the height is cut to the room of the column
LegacyUsedHeight(title_height_mm, image_height_mm, body_height_mm, available_mm) ==
    LET used_height_mm == Max2(title_height_mm + image_height_mm + body_height_mm, 0)
    IN IF used_height_mm > available_mm THEN available_mm ELSE used_height_mm

\* returns <<assignment, score_delta>>
_evaluate_placement(note, column_index, start_mm, available_mm, model, st) ==
    LET title_level == st.default_title_level
        title_height_mm == IF title_level # 0 THEN model_title_cost(model, title_level, 1) ELSE 0
        img == _select_image_preset(note, model, st)
        img_mode == img[1]
        image_height_mm == img[2]
        available_for_body == Max2(available_mm - title_height_mm - image_height_mm, 0)
        capacity_chars == capacity_per_column(model, available_mm, 1, title_level,
                                              IF img_mode = "none" THEN NoPreset ELSE img_mode)
        chars_body == NoteAttr(note, "chars_body", 0)
        body_chars_fit == Min2(capacity_chars, chars_body)
        body_chars_overflow == Max2(chars_body - body_chars_fit, 0)
        body_height_mm == Min2(_body_height_from_chars(body_chars_fit, model), available_for_body)
        used_height_mm == LegacyUsedHeight(title_height_mm, image_height_mm, body_height_mm, available_mm)
        target_total_mm == title_height_mm + image_height_mm + _body_height_from_chars(chars_body, model)
        remaining_mm == Max2(available_mm - used_height_mm, 0)
        fit == body_chars_overflow = 0 /\ target_total_mm <= available_mm + Tolerance
        score_delta == (IF fit THEN st.fit_bonus
                        ELSE 0 - st.overflow_penalty_per_char * body_chars_overflow
                               - st.overfill_penalty_per_mm * Max2(target_total_mm - available_mm, 0))
                       - st.gap_penalty_per_mm * remaining_mm
        assignment == [note |-> note,
                       column_index |-> column_index,
                       start_mm |-> start_mm,
                       used_height_mm |-> used_height_mm,
                       title_height_mm |-> title_height_mm,
                       body_height_mm |-> body_height_mm,
                       image_height_mm |-> image_height_mm,
                       body_chars_fit |-> body_chars_fit,
                       body_chars_overflow |-> body_chars_overflow,
                       img_mode |-> img_mode,
                       fit |-> fit,
                       remaining_mm |-> remaining_mm]
    IN <<assignment, score_delta>>

\* the states one beam state adds to next_states for a note (lines 215-230)
LegacyExpandOne(state, note, cols, col_height, model, st) ==
    LET open == SelectSeq([c \in 1..cols |-> c - 1],
                          LAMBDA c : Max2(col_height - state.columns_used_mm[c + 1], 0) > 0)
    IN [i \in 1..Len(open) |->
           LET used_mm == state.columns_used_mm[open[i] + 1]
               evaluation == _evaluate_placement(note, open[i], used_mm,
                                                 Max2(col_height - used_mm, 0), model, st)
           IN with_assignment(state, evaluation[1], evaluation[2], col_height)]
       \o <<with_drop(state, note, st.drop_penalty)>>

\* lines 238-249: the gaps weigh on the score, the first best state wins
LegacyFinalScore(state, col_height, st) ==
    state.score - st.final_gap_penalty_per_mm * SeqSum(Gaps(state, col_height))

RECURSIVE LegacyBestIndex(_, _, _, _)
LegacyBestIndex(states, n, col_height, st) ==
    IF n = 0 THEN 0
    ELSE LET prev == LegacyBestIndex(states, n - 1, col_height, st)
         IN IF prev = 0 THEN n
            ELSE IF LegacyFinalScore(states[n], col_height, st)
                    > LegacyFinalScore(states[prev], col_height, st)
                 THEN n ELSE prev

LegacyBuildOutcome(states, cols, col_height, st) ==
    LET best == LegacyBestIndex(states, Len(states), col_height, st)
        best_state == IF best = 0 THEN InitialState(cols) ELSE states[best]
        best_score == IF best = 0 THEN InitialState(cols).score
                      ELSE LegacyFinalScore(best_state, col_height, st)
        column_gaps == Gaps(best_state, col_height)
    IN [assignments |-> best_state.assignments,
        dropped_notes |-> best_state.dropped,
        column_usage_mm |-> best_state.columns_used_mm,
        column_gaps_mm |-> column_gaps,
        logs |-> Append(best_state.logs, <<"huecos finales", column_gaps>>),
        score |-> best_score]

\* no page, a page of 12 mm, and one of 7 mm, on which a title (2 mm) meets 1 mm of room
LegacyColumnHeights == {0, 7, 12}

InitLegacy ==
    /\ columns \in 0..MaxColumns
    /\ column_height \in LegacyColumnHeights
    /\ notes \in NoteLists
    /\ capacity_model \in CapacityModels
    /\ settings \in {LegacyPlanSettings(bw) : bw \in 0..MaxBeamWidth}
    /\ variants_by_note = NoCatalog
    /\ pc = "start"
    /\ note_idx = 0
    /\ state_idx = 0
    /\ beam = <<>>
    /\ new_states = <<>>
    /\ generated = <<>>
    /\ perm = <<>>
    /\ rounds = 0
    /\ outcome = <<>>
    /\ call = NoCall
    /\ result = <<>>

\* lines 191-210
LegacyStart ==
    /\ pc = "start"
    /\ IF columns <= 0 \/ column_height <= 0
       THEN /\ outcome' = DegenerateOutcome(columns, column_height, notes, settings)
            /\ pc' = "done"
            /\ UNCHANGED <<beam, note_idx>>
       ELSE /\ beam' = <<InitialState(columns)>>
            /\ note_idx' = 1
            /\ pc' = "round"
            /\ UNCHANGED outcome
    /\ UNCHANGED <<inputs, library, state_idx, new_states, generated, perm, rounds>>

\* lines 212-213: the next note, with an empty next_states
LegacyBeginRound ==
    /\ pc = "round"
    /\ note_idx <= Len(notes)
    /\ new_states' = <<>>
    /\ state_idx' = 1
    /\ pc' = "expand"
    /\ UNCHANGED <<inputs, library, note_idx, beam, generated, perm, rounds, outcome>>

\* lines 214-230: one beam state is expanded for the note
LegacyExpandState ==
    /\ pc = "expand"
    /\ state_idx <= Len(beam)
    /\ new_states' = new_states \o LegacyExpandOne(beam[state_idx], notes[note_idx], columns,
                                                   column_height, capacity_model, settings)
    /\ state_idx' = state_idx + 1
    /\ UNCHANGED <<inputs, library, pc, note_idx, beam, generated, perm, rounds, outcome>>

\* lines 232-236: next_states is sorted in place and cut to beam_width
LegacyEndRound ==
    /\ pc = "expand"
    /\ state_idx > Len(beam)
    /\ IF new_states = <<>>
       THEN /\ beam' = [i \in 1..Len(beam) |-> with_drop(beam[i], notes[note_idx], settings.drop_penalty)]
            /\ perm' = <<>>
            /\ UNCHANGED new_states
       ELSE LET order == StableSortPerm([i \in 1..Len(new_states) |-> <<new_states[i].score>>], TRUE)
                sorted == [i \in 1..Len(new_states) |-> new_states[order[i]]]
            IN /\ new_states' = sorted
               /\ perm' = order
               /\ beam' = Truncate(sorted, settings.beam_width)
    /\ generated' = new_states
    /\ rounds' = rounds + 1
    /\ note_idx' = note_idx + 1
    /\ pc' = "round"
    /\ UNCHANGED <<inputs, library, state_idx, outcome>>

\* lines 238-266: final selection and return
LegacyFinalSelect ==
    /\ pc = "round"
    /\ note_idx > Len(notes)
    /\ outcome' = LegacyBuildOutcome(beam, columns, column_height, settings)
    /\ pc' = "done"
    /\ UNCHANGED <<inputs, library, note_idx, state_idx, beam, new_states, generated, perm, rounds>>

NextLegacy ==
    LegacyStart \/ LegacyBeginRound \/ LegacyExpandState \/ LegacyEndRound \/ LegacyFinalSelect

SpecLegacy == InitLegacy /\ [][NextLegacy]_vars

-----------------------------------------------------------------------------
\* the position of the call: the statement it is at, the note and the beam state of the loops
control == <<pc, note_idx, state_idx>>

\* a call that has not returned moves on to its next position
Advance ==
    /\ pc # "done"
    /\ pc' \in {"round", "expand", "done"}
    /\ note_idx' \in {note_idx, note_idx + 1}
    /\ state_idx' \in {1, state_idx, state_idx + 1}

\* the call is synchronous and is never suspended or cancelled: while it has not returned
\* the interpreter executes its next statement
FairSpec == Init /\ [][Next]_vars /\ WF_control(Advance)

TypeOK ==
    /\ pc \in {"start", "round", "expand", "done"}
    /\ Len(beam) <= Max2(settings.beam_width, 1)

-----------------------------------------------------------------------------
(* Properties *)

\* every _BeamState the search holds: the beam and the candidates of the round
BeamStates ==
    {beam[i] : i \in 1..Len(beam)}
    \cup {new_states[i] : i \in 1..Len(new_states)}
    \cup {generated[i] : i \in 1..Len(generated)}

AssignmentsOf(state) == {state.assignments[k] : k \in 1..Len(state.assignments)}

\* every Assignment of every beam state and of the returned outcome
AllAssignments ==
    UNION {AssignmentsOf(s) : s \in BeamStates}
    \cup (IF pc = "done" THEN AssignmentsOf(outcome) ELSE {})

Returned == pc = "done"

Occurrences(seq, ref, RefOf(_)) == Cardinality({k \in 1..Len(seq) : RefOf(seq[k]) = ref})

AssignedRef(a) == a.note.ref
DroppedRef(n) == n.ref

\* C1 (as claimed): in the returned outcome every input note is the note of exactly one
\* Assignment or occurs exactly once in dropped_notes, never both and never neither.
C1_Partition ==
    Returned =>
        /\ \A i \in 1..Len(notes) :
              Occurrences(outcome.assignments, i, AssignedRef)
              + Occurrences(outcome.dropped_notes, i, DroppedRef) = 1
        /\ Len(outcome.assignments) + Len(outcome.dropped_notes) = Len(notes)

\* C2: every column usage of every beam state of the search and of the returned outcome
\* lies between 0 and column_height_mm (within the tolerance).
C2_Bounds ==
    /\ \A s \in BeamStates : \A k \in 1..Len(s.columns_used_mm) :
          /\ 0 <= s.columns_used_mm[k]
          /\ s.columns_used_mm[k] <= column_height + Tolerance
    /\ Returned => \A k \in 1..Len(outcome.column_usage_mm) :
          /\ 0 <= outcome.column_usage_mm[k]
          /\ outcome.column_usage_mm[k] <= column_height + Tolerance

\* C2 witness: an outcome after placements and a drop in which a column is filled to the top
C2_Witness ==
    /\ Returned
    /\ column_height > 0
    /\ Len(outcome.assignments) >= 2
    /\ outcome.dropped_notes # <<>>
    /\ \E k \in 1..Len(outcome.column_usage_mm) : outcome.column_usage_mm[k] = column_height

CurrentVariants ==
    _variants_for_note(notes[note_idx], variants_by_note, capacity_model, column_height, settings)

\* C3: no Assignment has column_index < 0 or column_index + span > columns, and the
\* (variant, start column) pairs proposed for a beam state never include a variant
\* whose span does not fit from that start column.
C3_SpanFeasible ==
    /\ \A a \in AllAssignments : a.column_index >= 0 /\ a.column_index + a.span <= columns
    /\ (pc = "expand" /\ state_idx <= Len(beam)) =>
          LET slots == PlacementSlots(beam[state_idx], CurrentVariants, columns)
          IN \A i \in 1..Len(slots) :
                /\ slots[i][2] >= 0
                /\ slots[i][2] + _variant_span(CurrentVariants[slots[i][1]]) <= columns

\* C3 witness (Scenario C): a one-column page, a note whose catalog holds a span-2
\* variant, and an outcome in which that note is placed
C3_Witness ==
    /\ Returned
    /\ columns = 1
    /\ \E a \in AssignmentsOf(outcome) :
          /\ a.note.note_id \in DOMAIN variants_by_note
          /\ \E v \in 1..Len(variants_by_note[a.note.note_id]) :
                variants_by_note[a.note.note_id][v].span = 2

\* C4: with columns = 0 or column_height_mm = 0 the call returns at once: no assignment,
\* all notes dropped in input order, score -drop_penalty * len(notes), one log line,
\* and no expansion round.
C4_Degenerate ==
    (Returned /\ (columns = 0 \/ column_height = 0)) =>
        /\ outcome.assignments = <<>>
        /\ outcome.dropped_notes = notes
        /\ outcome.score = 0 - settings.drop_penalty * Len(notes)
        /\ Len(outcome.logs) = 1
        /\ rounds = 0
        /\ beam = <<>>

\* C4 witness (Scenario B): a page without columns and several notes, all dropped
C4_Witness ==
    /\ Returned
    /\ columns = 0
    /\ column_height > 0
    /\ Len(notes) >= 2
    /\ Len(outcome.dropped_notes) = Len(notes)

\* the equal notes fit the page: each column takes column_height \div height of them whole
NotesFitPage ==
    LET height == _build_fallback_variants(notes[1], capacity_model, column_height,
                                           settings)[1].total_height_mm
    IN height > 0 /\ Len(notes) <= columns * (column_height \div height)

C6_AssignmentFits ==
    \A a \in AllAssignments : a.start_mm + a.used_height_mm <= column_height + Tolerance

FromCatalog(a) == a.note.note_id \in DOMAIN variants_by_note

\* C6 witness: an outcome holding a catalog placement of span 2 and a fallback placement
\* stacked under it, after a round that also produced a placement ending exactly at
\* the column bottom
C6_Witness ==
    /\ Returned
    /\ \E a, b \in AssignmentsOf(outcome) :
          /\ FromCatalog(a) /\ a.span = 2
          /\ ~FromCatalog(b) /\ b.start_mm > 0
    /\ \E a \in AllAssignments : a.start_mm + a.used_height_mm = column_height

\* C7: every Assignment has remaining_mm >= -epsilon, and remaining_mm is the minimum
\* over the spanned columns of column_height_mm - (start_mm + column_heights_mm[i]).
C7_RemainingNonNegative ==
    \A a \in AllAssignments :
        /\ a.remaining_mm >= 0 - Tolerance
        /\ \A i \in 1..a.span :
              a.remaining_mm <= column_height - (a.start_mm + a.column_heights_mm[i])
        /\ \E i \in 1..a.span :
              a.remaining_mm = column_height - (a.start_mm + a.column_heights_mm[i])

\* C7 witness: an outcome with a placement over 2 columns of unequal height that leaves
\* room, after a round that also produced a placement leaving no room
C7_Witness ==
    /\ Returned
    /\ \E a \in AssignmentsOf(outcome) :
          a.span = 2 /\ a.column_heights_mm[1] # a.column_heights_mm[2] /\ a.remaining_mm > 0
    /\ \E a \in AllAssignments : a.remaining_mm = 0

\* the beam after a round is made of the first Len(beam) entries of the sorted candidates
BeamFromCandidates ==
    /\ Len(perm) = Len(generated)
    /\ \A i \in 1..Len(beam) : i <= Len(perm) /\ perm[i] \in 1..Len(generated)
                               /\ beam[i] = generated[perm[i]]
    /\ \A i, j \in 1..Len(beam) : i # j => perm[i] # perm[j]

\* C8: with beam_width = 1 the beam holds exactly one state after every round, and it is
\* the highest-scoring candidate generated in that round, the first generated one among
\* those of equal score.
C8_Greedy ==
    (settings.beam_width = 1 /\ rounds >= 1) =>
        /\ Len(beam) = 1
        /\ BeamFromCandidates
        /\ \A j \in 1..Len(generated) : generated[j].score <= beam[1].score
        /\ \A j \in 1..(perm[1] - 1) : generated[j].score < beam[1].score

\* C8 witness: a round of a longer search with beam_width = 1 in which the kept candidate
\* was not the first one generated: lower-scoring candidates came before it
C8_Witness ==
    /\ settings.beam_width = 1
    /\ rounds >= 1
    /\ Len(notes) >= 2
    /\ Len(beam) = 1
    /\ Len(generated) >= 3
    /\ \E j \in 1..Len(generated) : j < perm[1] /\ generated[j].score < beam[1].score

\* the beam is the sorted candidate list cut to beam_width: as many states as beam_width
\* allows, in descending score order, and no discarded candidate outscores a kept one
PrunedBeam ==
    /\ Len(beam) = Min2(settings.beam_width, Len(generated))
    /\ Len(beam) <= settings.beam_width
    /\ BeamFromCandidates
    /\ \A i \in 1..(Len(beam) - 1) : beam[i].score >= beam[i + 1].score
    /\ \A j \in 1..Len(generated) :
          (\A i \in 1..Len(beam) : perm[i] # j) =>
              \A i \in 1..Len(beam) : generated[j].score <= beam[i].score

\* a step that expands one parent state keeps the beam and every candidate generated so
\* far in the round, and adds at least one candidate
ExpansionKeepsCandidates ==
    (pc = "expand" /\ state_idx <= Len(beam)) =>
        /\ beam' = beam
        /\ Len(new_states') > Len(new_states)
        /\ SubSeq(new_states', 1, Len(new_states)) = new_states

\* the beam changes only when the search starts or when every state of the current beam
\* has been expanded for the note
BeamChangesAtRoundEnd ==
    beam' # beam => (pc = "start" \/ (pc = "expand" /\ state_idx > Len(beam)))

\* C9: after each round the new beam is exactly the beam_width highest-scoring candidates
\* of the round in descending score order, the beam never holds more than beam_width
\* states, and pruning happens only at the end of a round, never per parent state.
C9_Pruning ==
    /\ [](rounds >= 1 => PrunedBeam)
    /\ [][ExpansionKeepsCandidates /\ BeamChangesAtRoundEnd]_vars

\* the state a candidate was expanded from is identified by the log lines before its last
ParentLogs(state) == SubSeq(state.logs, 1, Len(state.logs) - 1)

\* C9 witness: a later round with beam_width = 2 whose candidates come from two parent
\* states, more candidates than the beam keeps, the sort moved a later candidate into
\* the beam, and a discarded candidate scores lower than the kept ones
C9_Witness ==
    /\ settings.beam_width = 2
    /\ rounds >= 2
    /\ Len(beam) = 2
    /\ Len(generated) >= 4
    /\ perm[2] # 2
    /\ \E j, k \in 1..Len(generated) : ParentLogs(generated[j]) # ParentLogs(generated[k])
    /\ \E j \in 1..Len(generated) : generated[j].score < beam[2].score

\* the sorted candidates are the generated ones in descending score order, those of equal
\* score in the order they were generated
SortKeepsGenerationOrder ==
    /\ Len(perm) = Len(generated)
    /\ \A i \in 1..Len(perm) : perm[i] \in 1..Len(generated)
    /\ \A i, j \in 1..Len(perm) :
          i < j =>
              \/ generated[perm[i]].score > generated[perm[j]].score
              \/ /\ generated[perm[i]].score = generated[perm[j]].score
                 /\ perm[i] < perm[j]
    /\ pc \in {"round", "done"} /\ generated # <<>> =>
          new_states = [i \in 1..Len(perm) |-> generated[perm[i]]]

\* the (variant, start column) pairs of a parent state are visited in variant order and,
\* for one variant, in ascending start column
SlotsInLoopOrder ==
    (pc = "expand" /\ state_idx <= Len(beam)) =>
        LET slots == PlacementSlots(beam[state_idx], CurrentVariants, columns)
        IN \A i, j \in 1..Len(slots) : i < j => LexLess(slots[i], slots[j])

\* the outcome is taken from the first state of the final beam whose adjusted score no
\* other state of the beam exceeds
FirstBestSelected ==
    (Returned /\ beam # <<>>) =>
        \E b \in 1..Len(beam) :
            /\ outcome.assignments = beam[b].assignments
            /\ outcome.dropped_notes = beam[b].dropped
            /\ outcome.column_usage_mm = beam[b].columns_used_mm
            /\ outcome.score = FinalScore(beam[b], column_height, settings)
            /\ \A i \in 1..Len(beam) :
                  FinalScore(beam[i], column_height, settings) <= outcome.score
            /\ \A i \in 1..(b - 1) :
                  FinalScore(beam[i], column_height, settings) < outcome.score

\* a step never changes the page, the notes, the capacity model, the settings or the
\* catalog, and a returned outcome is never changed
RunIsFunctionOfInputs ==
    /\ inputs' = inputs
    /\ pc = "done" => outcome' = outcome

\* C10: a run is determined by its inputs; candidates of equal score keep their generation
\* order (state order, then variant order, then start column ascending) through the
\* sort, and final selection picks the first beam state among equal adjusted scores.
C10_Deterministic ==
    /\ [](rounds >= 1 => SortKeepsGenerationOrder)
    /\ [](SlotsInLoopOrder /\ FirstBestSelected)
    /\ [][RunIsFunctionOfInputs]_vars

\* C10 witness: an outcome of a search whose last round sorted candidates of equal score
\* around the cut of the beam, and whose final beam holds two states of equal adjusted
\* score, the first of which is returned
C10_Witness ==
    /\ Returned
    /\ settings.beam_width = 2
    /\ Len(beam) = 2
    /\ Len(generated) >= 3
    /\ generated[perm[2]].score = generated[perm[3]].score
    /\ FinalScore(beam[1], column_height, settings) = FinalScore(beam[2], column_height, settings)
    /\ beam[1].columns_used_mm # beam[2].columns_used_mm
    /\ outcome.column_usage_mm = beam[1].columns_used_mm

\* while the search runs, the note being expanded is the one after the completed rounds
OneRoundPerNote ==
    /\ pc \in {"round", "expand"} => note_idx = rounds + 1
    /\ pc = "expand" => note_idx \in 1..Len(notes)
    /\ (Returned /\ columns > 0 /\ column_height > 0) => rounds = Len(notes)
    /\ rounds <= Len(notes)
    /\ pc \in {"start", "round", "expand", "done"}
    /\ pc = "round" => note_idx \in 1..(Len(notes) + 1)
    /\ pc = "expand" => state_idx \in 1..(Len(beam) + 1)

\* the pass only moves forward: a step never lowers the note index or the round count,
\* a round is completed once per step that changes them, and nothing follows the return
ForwardPass ==
    /\ note_idx' >= note_idx
    /\ rounds' >= rounds
    /\ rounds' # rounds => rounds' = rounds + 1 /\ note_idx' = note_idx + 1
    /\ pc = "expand" => state_idx' >= state_idx
    /\ Advance /\ control' # control

\* C11: solve_page_layout finishes, after exactly one expansion round per input note
\* followed by one final-selection step; no note is expanded twice and no round is
\* revisited.
C11_Termination ==
    /\ <>Returned
    /\ []OneRoundPerNote
    /\ [][ForwardPass]_vars

\* C11 witness: a returned outcome after a search over MaxNotes notes with a catalog, one
\* round per note
C11_Witness ==
    /\ Returned
    /\ Len(notes) >= 3
    /\ rounds = Len(notes)
    /\ variants_by_note # NoCatalog
    /\ outcome.assignments # <<>>

\* the candidate a step of the expansion added last is a drop of the note
LastCandidateIsDrop ==
    Len(new_states'[Len(new_states')].dropped) > Len(beam[state_idx].dropped)

\* some column of the state being expanded has room left below column_height
ParentHasRoom ==
    \E k \in 1..Len(beam[state_idx].columns_used_mm) :
        beam[state_idx].columns_used_mm[k] < column_height

\* every variant of the note is taller than the room left in every column of the state
NoteExceedsRoom ==
    \A v \in 1..Len(CurrentVariants) :
        \A k \in 1..Len(beam[state_idx].columns_used_mm) :
            VariantAttr(CurrentVariants[v], "total_height_mm", 0)
                > column_height - beam[state_idx].columns_used_mm[k]

\* C12 (as claimed): when the note's required height exceeds all remaining room but some
\* column of the beam state has room left, the state contributes no drop of the note:
\* the note is placed partially, with body_chars_overflow > 0.
C12_ExhaustionIsNotDrop ==
    [][(pc = "expand" /\ state_idx <= Len(beam) /\ ParentHasRoom /\ NoteExceedsRoom) =>
          /\ ~LastCandidateIsDrop
          /\ new_states'[Len(new_states')].assignments[
                 Len(new_states'[Len(new_states')].assignments)].body_chars_overflow > 0]_vars

\* the note has no title level of its own that can be used
LacksTitleLevel(note) == "title_level" \notin DOMAIN note \/ note.title_level <= 0

\* the note names an image preset the capacity model does not have
NamesUnknownPreset(note) ==
    "image_mode" \in DOMAIN note /\ ~HasPreset(capacity_model, note.image_mode)

\* the note has neither an image preset name nor an image count
NoImageInformation(note) == "image_mode" \notin DOMAIN note /\ "image_count" \notin DOMAIN note

\* C13 (as claimed, checked under SpecAttrs): the call returns an outcome that accounts for
\* every note, and in every Assignment a note without a usable title level has the title
\* height of default_title_level, a note without chars_body has 0 body characters, and a
\* note that names an unknown image preset or has no image information has img_mode
\* "none" and image height 0.
C13_DefaultsForMissing ==
    /\ Returned => Len(outcome.assignments) + Len(outcome.dropped_notes) = Len(notes)
    /\ \A a \in AllAssignments :
          /\ LacksTitleLevel(a.note) =>
                a.title_height_mm = model_title_cost(capacity_model, settings.default_title_level, 1)
          /\ "chars_body" \notin DOMAIN a.note =>
                a.body_chars_fit = 0 /\ a.body_chars_overflow = 0 /\ a.body_height_mm = 0
          /\ (NamesUnknownPreset(a.note) \/ NoImageInformation(a.note)) =>
                a.img_mode = "none" /\ a.image_height_mm = 0

Returns(fn) == call.fn = fn /\ result # <<>> /\ result[1] = "return"

Raises(fn) == call.fn = fn /\ result # <<>> /\ result[1] = "raise"

\* C14 (as claimed, checked under SpecLibrary): capacity_for_height(height_mm) returns
\* floor(max(height_mm, 0) * lines_per_mm) * chars_per_line: only whole lines count, and
\* negative heights give 0.
C14_WholeLines ==
    Returns("capacity_for_height") =>
        result[2] = (Max2(call.height_mm, 0) \div call.style.mm_per_line) * call.style.chars_per_line

ClaimedImageIndex(image) == IF image = NoPreset THEN 2 ELSE IF image = "vertical" THEN 0 ELSE 1

ClaimedKey(variant) ==
    <<variant.title_span, ClaimedImageIndex(variant.image_preset), variant.total_height_mm>>

\* C16 (as claimed, checked under SpecLibrary): generate_note_variants returns its variants
\* sorted ascending by (title_span, image preference index, total_height_mm), the index
\* ordering a vertical image before a horizontal or other image, and any image before none.
C16_PreferenceOrder ==
    Returns("generate_note_variants") =>
        \A i, j \in 1..Len(result[2]) :
            i < j => ~LexLess(ClaimedKey(result[2][j]), ClaimedKey(result[2][i]))

\* the span of the image preset a variant chose, 0 without an image
ChosenPresetSpan(model, variant) ==
    IF variant.image_preset = NoPreset THEN 0 ELSE GetPreset(model, variant.image_preset).span

\* the image options of a call: no image and the presets the generator picks for the model
ImageOptionSet(model) == {ImageOptions(model)[i] : i \in 1..Len(ImageOptions(model))}

\* C17 (as claimed, checked under SpecLibrary): every variant generate_note_variants
\* returns has span = max(title_span, span of the chosen preset, 1), footprint.span = span,
\* as many column heights as span, total_height_mm = max(column_heights_mm); and exactly
\* one variant is returned per (positive title span, image option) pair.
C17_VariantShape ==
    Returns("generate_note_variants") =>
        /\ \A i \in 1..Len(result[2]) :
              LET v == result[2][i]
              IN /\ v.span = Max2(Max2(v.title_span, ChosenPresetSpan(call.model, v)), 1)
                 /\ v.footprint.span = v.span
                 /\ Len(v.footprint.column_heights_mm) = v.span
                 /\ v.total_height_mm = SeqMax(v.footprint.column_heights_mm)
                 /\ v.title_span > 0
                 /\ \E t \in 1..Len(call.title_spans) : call.title_spans[t] = v.title_span
                 /\ v.image_preset \in ImageOptionSet(call.model)
        /\ \A t \in 1..Len(call.title_spans) : \A o \in ImageOptionSet(call.model) :
              call.title_spans[t] > 0 =>
                  Cardinality({i \in 1..Len(result[2]) :
                                  /\ result[2][i].title_span = call.title_spans[t]
                                  /\ result[2][i].image_preset = o}) = 1

\* candidate cand is the drop of the note from the parent state
IsDropOf(cand, parent, note) ==
    /\ cand.dropped = Append(parent.dropped, note)
    /\ cand.assignments = parent.assignments
    /\ cand.columns_used_mm = parent.columns_used_mm
    /\ cand.score = parent.score - settings.drop_penalty
    /\ Len(cand.logs) = Len(parent.logs) + 1

\* C18 (as claimed): every beam state contributes a drop candidate for the note, also
\* when placement candidates were generated for it; the drop candidate adds the note to
\* dropped, lowers the score by drop_penalty and appends one trace line.
C18_DropAlwaysGenerated ==
    [][(pc = "expand" /\ state_idx <= Len(beam)) =>
          \E i \in (Len(new_states) + 1)..Len(new_states') :
              IsDropOf(new_states'[i], beam[state_idx], notes[note_idx])]_vars

\* the Assignment a candidate of the round added to its parent state, when it is a placement
IsPlacement(cand, parent) == Len(cand.assignments) = Len(parent.assignments) + 1

PlacedAssignment(cand) == cand.assignments[Len(cand.assignments)]

\* the placement rule for Assignment a made from the parent state
PlacementRule(a, parent) ==
    /\ a.column_index >= 0
    /\ a.column_index + a.span <= columns
    /\ \A k \in (a.column_index + 1)..(a.column_index + a.span) :
          parent.columns_used_mm[k] <= a.start_mm
    /\ \E k \in (a.column_index + 1)..(a.column_index + a.span) :
          parent.columns_used_mm[k] = a.start_mm
    /\ \A i \in 1..a.span : a.start_mm + a.column_heights_mm[i] <= column_height + Tolerance
    /\ \E v \in 1..Len(CurrentVariants) :
          /\ _variant_span(CurrentVariants[v]) = a.span
          /\ Len(CurrentVariants[v].footprint.column_heights_mm) = a.span
          /\ CurrentVariants[v].footprint.column_heights_mm = a.column_heights_mm

\* C19: every placement generated for a beam state, a variant of span s and a start column
\* c has c + s <= columns, start_mm equal to the maximum usage of the columns c..c+s-1,
\* no spanned column ending past column_height_mm, and the variant's own per-column
\* heights, unscaled.
C19_PlacementRule ==
    [][(pc = "expand" /\ state_idx <= Len(beam)) =>
          \A i \in (Len(new_states) + 1)..Len(new_states') :
              IsPlacement(new_states'[i], beam[state_idx]) =>
                  PlacementRule(PlacedAssignment(new_states'[i]), beam[state_idx])]_vars

\* C19 witness: a candidate whose last placement spans 2 columns of unequal usage: it starts
\* under an earlier one-column placement while its other column was still empty
C19_Witness ==
    /\ pc = "expand"
    /\ \E i \in 1..Len(new_states) :
          LET cand == new_states[i]
              a == PlacedAssignment(cand)
          IN /\ Len(cand.assignments) >= 2
             /\ Len(cand.dropped) = 0
             /\ a.span = 2
             /\ a.start_mm > 0
             /\ \A j \in 1..(Len(cand.assignments) - 1) :
                   cand.assignments[j].span = 1 /\ cand.assignments[j].column_index = 0
             /\ cand.columns_used_mm[1] # cand.columns_used_mm[2]

\* candidate cand is the parent state with Assignment a pushed: the spanned columns are
\* raised to start_mm + column_heights_mm[i], the rest is the parent's, and the score rises
\* by the score delta of the evaluation that built a
IsAssignmentOn(cand, parent) ==
    LET a == PlacedAssignment(cand)
    IN /\ cand.assignments = Append(parent.assignments, a)
       /\ cand.dropped = parent.dropped
       /\ Len(cand.columns_used_mm) = Len(parent.columns_used_mm)
       /\ \A k \in 1..Len(parent.columns_used_mm) :
             IF k - 1 >= a.column_index /\ k - 1 < a.column_index + a.span
             THEN cand.columns_used_mm[k] = a.start_mm + a.column_heights_mm[k - a.column_index]
             ELSE cand.columns_used_mm[k] = parent.columns_used_mm[k]
       /\ Len(cand.logs) = Len(parent.logs) + 1
       /\ SubSeq(cand.logs, 1, Len(parent.logs)) = parent.logs
       /\ \E v \in 1..Len(CurrentVariants) :
             LET evaluation == _evaluate_variant_placement(a.note, CurrentVariants[v], a.column_index,
                                                           a.start_mm, column_height, settings)
             IN /\ evaluation # <<>>
                /\ evaluation[1].assignment = a
                /\ cand.score = parent.score + evaluation[1].score_delta

\* C20: push_assignment yields a state whose spanned columns are at
\* start_mm + column_heights_mm[i], with the other columns and dropped unchanged, the
\* Assignment appended, score = old score + delta and one trace line more; push_drop
\* yields a state with columns_used_mm and assignments unchanged, the note appended to
\* dropped and score = old score - drop_penalty; the parent state is not modified, so the
\* candidates expanded from one parent all start from the parent's values.
C20_PushFrame ==
    [][/\ (pc = "expand" /\ state_idx <= Len(beam)) =>
             /\ beam' = beam
             /\ \A i \in (Len(new_states) + 1)..Len(new_states') :
                   IF IsPlacement(new_states'[i], beam[state_idx])
                   THEN IsAssignmentOn(new_states'[i], beam[state_idx])
                   ELSE IsDropOf(new_states'[i], beam[state_idx], notes[note_idx])
       /\ (pc = "expand" /\ state_idx > Len(beam) /\ new_states = <<>>) =>
             /\ Len(beam') = Len(beam)
             /\ \A i \in 1..Len(beam) : IsDropOf(beam'[i], beam[i], notes[note_idx])]_vars

\* C20 witness: two placements of the note expanded from one parent that already holds an
\* Assignment, in different columns, each leaving the other's column at the parent's
\* usage, next to a drop expanded from another parent
C20_Witness ==
    /\ pc = "expand"
    /\ \E i, j \in 1..Len(new_states) :
          LET ci == new_states[i]
              cj == new_states[j]
          IN /\ ParentLogs(ci) = ParentLogs(cj)
             /\ Len(ci.assignments) >= 2
             /\ Len(cj.assignments) = Len(ci.assignments)
             /\ PlacedAssignment(ci).column_index = 0
             /\ PlacedAssignment(cj).column_index = 1
             /\ ci.columns_used_mm[2] < cj.columns_used_mm[2]
             /\ cj.columns_used_mm[1] < ci.columns_used_mm[1]
    /\ \E i \in 1..Len(new_states) : Len(new_states[i].dropped) > 0

\* the adjusted score as the final selection is described: the gaps are
\* column_height_mm - columns_used_mm[i], their sum is weighted by
\* final_gap_penalty_per_mm and their spread by gap_penalty_per_mm
AdjustedScore(state) ==
    LET gap == [k \in 1..Len(state.columns_used_mm) |-> column_height - state.columns_used_mm[k]]
    IN state.score - settings.final_gap_penalty_per_mm * SeqSum(gap)
                   - settings.gap_penalty_per_mm * (SeqMax(gap) - SeqMin(gap))

\* the search ran its rounds (no degenerate return) and some state survived the last one
SearchReturned == Returned /\ columns > 0 /\ column_height > 0 /\ beam # <<>>

\* C21: when the search returns with a beam that is not empty, the outcome is built from
\* a state of the beam whose adjusted score (score minus final_gap_penalty_per_mm * sum of
\* the gaps minus gap_penalty_per_mm * (max gap - min gap)) is the maximum over the beam,
\* and outcome.score is that adjusted score.
C21_FinalSelection ==
    SearchReturned =>
        \E i \in 1..Len(beam) :
            /\ outcome.assignments = beam[i].assignments
            /\ outcome.dropped_notes = beam[i].dropped
            /\ outcome.column_usage_mm = beam[i].columns_used_mm
            /\ outcome.score = AdjustedScore(beam[i])
            /\ \A j \in 1..Len(beam) : AdjustedScore(beam[j]) <= outcome.score

\* C21 witness: two states survive, the second of the sorted beam has the higher adjusted
\* score and is returned, with a score that is not its search score
C21_Witness ==
    /\ SearchReturned
    /\ Len(beam) >= 2
    /\ AdjustedScore(beam[2]) > AdjustedScore(beam[1])
    /\ outcome.assignments = beam[2].assignments
    /\ outcome.score # beam[2].score

\* the body overflow of a variant as variant generation tags it: penalties['overflow_chars']
TaggedOverflow(variant) == PenaltyGet(VariantAttr(variant.footprint, "penalties", <<>>), "overflow_chars")

\* the fit / overflow term as claimed: the fit bonus without overflow, else the weighted overflow
ClaimedFitDelta(variant) ==
    IF TaggedOverflow(variant) = 0 THEN settings.fit_bonus
    ELSE 0 - settings.overflow_penalty_per_char * TaggedOverflow(variant)

\* candidate cand places the note with the variant, scored as claimed
ScoredAsClaimed(cand, parent, variant) ==
    LET a == PlacedAssignment(cand)
        evaluation == _evaluate_variant_placement(a.note, variant, a.column_index, a.start_mm,
                                                  column_height, settings)
    IN /\ evaluation # <<>>
       /\ evaluation[1].assignment = a
       /\ a.fit = (TaggedOverflow(variant) = 0)
       /\ a.body_chars_overflow = TaggedOverflow(variant)
       /\ cand.score = parent.score + ClaimedFitDelta(variant) + PenaltyDelta(variant.footprint, settings)

ClaimedPenaltyDelta(variant) ==
    LET penalties == variant.footprint.penalties
        unrecognized == DOMAIN penalties \ RecognizedPenalties
    IN 0 - settings.unused_capacity_penalty_per_char * PenaltyGet(penalties, "unused_capacity")
         - settings.mordida_penalty_per_line
             * (PenaltyGet(penalties, "title_mordida_lines") + PenaltyGet(penalties, "body_mordida_lines"))
         - settings.missing_image_penalty * PenaltyGet(penalties, "missing_image")
         - SumOver([k \in unrecognized |-> 100 * penalties[k]], unrecognized)
         + 5 * variant.footprint.image_priority

\* candidate cand places the note with the variant and its score rose by the fit/overflow
\* term plus the weighted penalties of the variant
WeightedAsClaimed(cand, parent, variant) ==
    LET a == PlacedAssignment(cand)
        evaluation == _evaluate_variant_placement(a.note, variant, a.column_index, a.start_mm,
                                                  column_height, settings)
    IN /\ evaluation # <<>>
       /\ evaluation[1].assignment = a
       /\ cand.score = parent.score + FitDelta(a.fit, a.body_chars_overflow, settings)
                                    + ClaimedPenaltyDelta(variant)

\* the score deltas of the evaluations of a variant at every start column and start level
DeltasOf(note, variant) ==
    {_evaluate_variant_placement(note, variant, c, s, column_height, settings)[1].score_delta :
        <<c, s>> \in {<<c, s>> \in (0..(columns - 1)) \X (0..column_height) :
                        _evaluate_variant_placement(note, variant, c, s, column_height, settings) # <<>>}}

\* C23 (checked under SpecTagged): the score delta of every placement is the fit/overflow
\* term minus unused_capacity_penalty_per_char * unused_capacity, minus
\* mordida_penalty_per_line * (title + body mordida lines), minus missing_image_penalty *
\* missing_image, minus every unrecognized tag at face value, plus 0.05 * image_priority,
\* and a variant has one delta whatever the start column and start_mm.
C23_PenaltyWeights ==
    [][(pc = "expand" /\ state_idx <= Len(beam)) =>
          /\ \A i \in (Len(new_states) + 1)..Len(new_states') :
                IsPlacement(new_states'[i], beam[state_idx]) =>
                    \E v \in 1..Len(CurrentVariants) :
                        WeightedAsClaimed(new_states'[i], beam[state_idx], CurrentVariants[v])
          /\ \A v \in 1..Len(CurrentVariants) :
                Cardinality(DeltasOf(notes[note_idx], CurrentVariants[v])) <= 1]_vars

\* the Assignment is the evaluation of the variant at its start column and start level
PlacedWith(a, variant) ==
    LET evaluation == _evaluate_variant_placement(a.note, variant, a.column_index, a.start_mm,
                                                  column_height, settings)
    IN evaluation # <<>> /\ evaluation[1].assignment = a

\* C23 witness: two candidates of a round that place one variant, which carries tags the
\* solver does not know and an image priority, at different start columns, one of them on
\* top of an earlier note (start_mm > 0)
C23_Witness ==
    /\ pc = "expand"
    /\ \E i, j \in 1..Len(new_states) : \E v \in 1..Len(CurrentVariants) :
          LET ai == PlacedAssignment(new_states[i])
              aj == PlacedAssignment(new_states[j])
          IN /\ Len(new_states[i].assignments) >= 2
             /\ Len(new_states[j].assignments) >= 2
             /\ ai.column_index # aj.column_index
             /\ ai.start_mm > 0
             /\ aj.start_mm = 0
             /\ "viudas" \in DOMAIN CurrentVariants[v].footprint.penalties
             /\ CurrentVariants[v].footprint.image_priority > 0
             /\ PlacedWith(ai, CurrentVariants[v])
             /\ PlacedWith(aj, CurrentVariants[v])

\* the catalog entry of a note: the entry under its note_id as given, else under the
\* integer it denotes, else under its text; <<>> without catalog, note_id or entry
CatalogEntry(note, catalog) ==
    IF catalog = NoCatalog \/ "note_id" \notin DOMAIN note THEN <<>>
    ELSE LET id == note.note_id
             asInt == IF id >= 2 * TextBase THEN id ELSE id % TextBase
             asStr == IF id < TextBase THEN id + TextBase ELSE id
         IN IF id \in DOMAIN catalog THEN catalog[id]
            ELSE IF asInt \in DOMAIN catalog THEN catalog[asInt]
            ELSE IF asStr \in DOMAIN catalog THEN catalog[asStr]
            ELSE <<>>

\* C24: with a non-empty catalog entry for the note's note_id (as given, else as int, else
\* as str) the candidates of the note are exactly that entry; without catalog, entry or
\* with an empty entry they are exactly one fallback variant built from the note's
\* attributes, of span 1 with a single-column footprint.
C24_VariantSource ==
    Returns("_variants_for_note") =>
        LET entry == CatalogEntry(call.note, call.variants_by_note)
            candidates == result[2]
        IN IF entry # <<>>
           THEN candidates = entry
           ELSE /\ Len(candidates) = 1
                /\ candidates = _build_fallback_variants(call.note, call.capacity_model,
                                                         call.column_height, call.settings)
                /\ candidates[1].span = 1
                /\ candidates[1].footprint.span = 1
                /\ Len(candidates[1].footprint.column_heights_mm) = 1

\* C24 witness: a note whose id is the text "1" gets the entry the catalog holds under the
\* integer 1, which is not a fallback variant
C24_Witness ==
    /\ Returns("_variants_for_note")
    /\ "note_id" \in DOMAIN call.note
    /\ call.note.note_id = TextBase + 1
    /\ DOMAIN call.variants_by_note = {1}
    /\ Len(result[2]) = 2
    /\ result[2] = call.variants_by_note[1]

\* column k (0-based) is one of the columns the Assignment spans
Spans(a, k) == a.column_index <= k /\ k < a.column_index + a.span

\* where the Assignment ends in column k: start_mm + column_heights_mm[k - column_index]
EndIn(a, k) == a.start_mm + a.column_heights_mm[k - a.column_index + 1]

\* the assignments of a state or outcome are in the order their notes were placed: in
\* every column two of them share, the later one starts at or below the end of the earlier
NoOverlap(assignments) ==
    \A i, j \in 1..Len(assignments) :
        i < j => \A k \in 0..(columns - 1) :
            (Spans(assignments[i], k) /\ Spans(assignments[j], k)) =>
                /\ assignments[j].start_mm >= EndIn(assignments[i], k)
                /\ \/ EndIn(assignments[i], k) <= assignments[j].start_mm
                   \/ EndIn(assignments[j], k) <= assignments[i].start_mm

\* C25: in every beam state and in the returned outcome, two assignments that span a
\* common column k occupy disjoint intervals [start_mm, start_mm + column_heights_mm[k -
\* column_index]) of it, the later note starting at or below the end of the earlier one.
C25_NoOverlap ==
    /\ \A s \in BeamStates : NoOverlap(s.assignments)
    /\ Returned => NoOverlap(outcome.assignments)

\* C25 witness: an outcome in which a note lies directly under the shorter leg of a
\* two-column assignment: it starts where that leg ends, above the end of the longer leg
C25_Witness ==
    /\ Returned
    /\ \E i, j \in 1..Len(outcome.assignments) : \E k \in 0..(columns - 1) :
          LET ai == outcome.assignments[i]
              aj == outcome.assignments[j]
          IN /\ i < j
             /\ ai.span = 2
             /\ Spans(ai, k) /\ Spans(aj, k)
             /\ aj.start_mm = EndIn(ai, k)
             /\ aj.start_mm < ai.start_mm + ai.used_height_mm
             /\ EndIn(aj, k) > aj.start_mm

\* positions in the input list of the notes of a sequence of assignments / of notes
AssignedRefs(assignments) == [i \in 1..Len(assignments) |-> assignments[i].note.ref]
DroppedRefs(dropped) == [i \in 1..Len(dropped) |-> dropped[i].ref]

\* the positions name a subsequence of the input list, in input order
InInputOrder(refs) ==
    /\ \A i \in 1..Len(refs) : refs[i] \in 1..Len(notes)
    /\ \A i, j \in 1..Len(refs) : i < j => refs[i] < refs[j]

\* exactly the first k input notes are decided in the state, each once and in input order
DecidesFirst(state, k) ==
    /\ Len(state.assignments) + Len(state.dropped) = k
    /\ {state.assignments[i].note.ref : i \in 1..Len(state.assignments)}
       \cup {state.dropped[i].ref : i \in 1..Len(state.dropped)} = 1..k
    /\ InInputOrder(AssignedRefs(state.assignments))
    /\ InInputOrder(DroppedRefs(state.dropped))

\* C26: every beam state after round k decides exactly the first k input notes (the
\* candidates of the running round decide one more), and in the returned outcome the notes
\* of assignments and dropped_notes are each a subsequence of the input list in input order.
C26_InputOrder ==
    /\ \A i \in 1..Len(beam) : DecidesFirst(beam[i], rounds)
    /\ \A i \in 1..Len(new_states) :
          DecidesFirst(new_states[i], IF pc = "expand" THEN rounds + 1 ELSE rounds)
    /\ Returned =>
          /\ InInputOrder(AssignedRefs(outcome.assignments))
          /\ InInputOrder(DroppedRefs(outcome.dropped_notes))
          /\ \A i \in 1..Len(outcome.assignments) :
                outcome.assignments[i].note = notes[outcome.assignments[i].note.ref]
          /\ \A i \in 1..Len(outcome.dropped_notes) :
                outcome.dropped_notes[i] = notes[outcome.dropped_notes[i].ref]

\* C26 witness: an outcome of the search with placed notes on both sides of a dropped one
C26_Witness ==
    /\ SearchReturned
    /\ \E i, j \in 1..Len(outcome.assignments) : \E d \in 1..Len(outcome.dropped_notes) :
          /\ outcome.assignments[i].note.ref < outcome.dropped_notes[d].ref
          /\ outcome.dropped_notes[d].ref < outcome.assignments[j].note.ref

\* some (variant, start column) pair of the loops gives a placement of the note on the state
ProducesPlacement(state, note) ==
    LET note_variants == _variants_for_note(note, variants_by_note, capacity_model,
                                            column_height, settings)
        slots == PlacementSlots(state, note_variants, columns)
    IN \E i \in 1..Len(slots) :
          LET variant == note_variants[slots[i][1]]
              evaluation == _evaluate_variant_placement(note, variant, slots[i][2],
                                StartLevel(state, slots[i][2], _variant_span(variant)),
                                column_height, settings)
          IN evaluation # <<>> /\ evaluation[1].assignment.used_height_mm > 0

\* the branch as it was when the note at position ref was expanded: the first n
\* assignments pushed onto the initial state, n the number of notes placed before ref
RECURSIVE Replay(_, _)
Replay(assignments, n) ==
    IF n = 0 THEN InitialState(columns)
    ELSE push_assignment(Replay(assignments, n - 1), assignments[n], 0, column_height)

BranchBefore(assignments, ref) ==
    Replay(assignments, Cardinality({i \in 1..Len(assignments) : assignments[i].note.ref < ref}))

\* C27 (checked under SpecDropPenalty, drop_penalty 0 or 10): the expansion of a state adds
\* a drop of the note only when no (variant, start column) pair produced a placement on
\* that state, and every note in dropped_notes of the returned outcome had no placement on
\* the branch it was expanded in.
C27_NoAvoidableDrop ==
    [][/\ (pc = "expand" /\ state_idx <= Len(beam)) =>
             \A i \in (Len(new_states) + 1)..Len(new_states') :
                 ~IsPlacement(new_states'[i], beam[state_idx]) =>
                     ~ProducesPlacement(beam[state_idx], notes[note_idx])
       /\ (pc # "done" /\ pc' = "done") =>
             \A d \in 1..Len(outcome'.dropped_notes) :
                 ~ProducesPlacement(BranchBefore(outcome'.assignments, outcome'.dropped_notes[d].ref),
                                    outcome'.dropped_notes[d])]_vars

\* C27 witness: dropping is free, and the outcome holds a note placed at a loss (its score
\* delta is negative, a drop would have scored higher) next to a dropped note
C27_Witness ==
    /\ Returned
    /\ settings.drop_penalty = 0
    /\ outcome.dropped_notes # <<>>
    /\ \E i \in 1..Len(outcome.assignments) :
          /\ outcome.assignments[i].body_chars_overflow > 0
          /\ FitDelta(FALSE, outcome.assignments[i].body_chars_overflow, settings) < 0

\* every variant of the note, from the catalog or the fallback, has total height 0
ZeroHeightNote(note) ==
    LET note_variants == _variants_for_note(note, variants_by_note, capacity_model,
                                            column_height, settings)
    IN \A v \in 1..Len(note_variants) : note_variants[v].total_height_mm = 0

\* no Assignment of a beam state or of the outcome has used_height_mm <= 0
PlacementsHaveHeight == \A a \in AllAssignments : a.used_height_mm > 0

\* the only candidate a state gets for a note without height is its drop, at drop_penalty
ZeroHeightIsDropped ==
    (pc = "expand" /\ state_idx <= Len(beam) /\ ZeroHeightNote(notes[note_idx])) =>
        /\ Len(new_states') = Len(new_states) + 1
        /\ IsDropOf(new_states'[Len(new_states')], beam[state_idx], notes[note_idx])

\* the notes without height are among the dropped notes of an outcome of the search
ZeroHeightInDropped ==
    (Returned /\ columns > 0 /\ column_height > 0 /\ settings.beam_width >= 1) =>
        \A i \in 1..Len(notes) :
            ZeroHeightNote(notes[i]) =>
                \E d \in 1..Len(outcome.dropped_notes) : outcome.dropped_notes[d] = notes[i]

\* C28: no Assignment has used_height_mm <= 0; a note all of whose variants have total
\* height 0 gets the drop as its only candidate, at the cost of drop_penalty, and (for
\* beam_width >= 1) is in dropped_notes of the outcome, even on an empty page.
C28_ZeroHeightDropped ==
    /\ []PlacementsHaveHeight
    /\ []ZeroHeightInDropped
    /\ [][ZeroHeightIsDropped]_vars

\* C28 witness: a single note without body, title or image on a page with free columns:
\* the outcome drops it and leaves every column empty
C28_Witness ==
    /\ Returned
    /\ columns >= 2
    /\ column_height > 0
    /\ settings.beam_width >= 1
    /\ Len(notes) = 1
    /\ ZeroHeightNote(notes[1])
    /\ outcome.dropped_notes = notes
    /\ outcome.assignments = <<>>
    /\ \A k \in 1..columns : outcome.column_usage_mm[k] = 0
    /\ beam[1].score = 0 - settings.drop_penalty

\* sum of used_height_mm of the first n assignments that lie in column k (0-based)
RECURSIVE HeightInColumn(_, _, _)
HeightInColumn(assignments, n, k) ==
    IF n = 0 THEN 0
    ELSE HeightInColumn(assignments, n - 1, k)
         + (IF assignments[n].column_index = k THEN assignments[n].used_height_mm ELSE 0)

\* the column usages are the sums of the heights assigned to each column and stay within
\* the column height; each assignment starts at the usage its column had before it, ends
\* within the column height, and was made to a column that was not full
ColumnsAddUp(assignments, used) ==
    /\ \A k \in 1..Len(used) :
          /\ used[k] = HeightInColumn(assignments, Len(assignments), k - 1)
          /\ used[k] <= column_height
    /\ \A n \in 1..Len(assignments) :
          /\ assignments[n].start_mm = HeightInColumn(assignments, n - 1, assignments[n].column_index)
          /\ assignments[n].start_mm + assignments[n].used_height_mm <= column_height
          /\ assignments[n].start_mm < column_height

\* C29 (checked under SpecLegacy, the solver of src/solver.py): in every beam state and
\* in the outcome columns_used_mm[i] is the sum of used_height_mm of the assignments with
\* column_index i and never exceeds column_height; every assignment has start_mm equal
\* to its column's usage before it and start_mm + used_height_mm <= column_height; no
\* assignment is made to a column whose usage already equals column_height.
C29_LegacyColumns ==
    /\ \A s \in BeamStates : ColumnsAddUp(s.assignments, s.columns_used_mm)
    /\ (Returned /\ columns > 0 /\ column_height > 0) =>
          ColumnsAddUp(outcome.assignments, outcome.column_usage_mm)

\* C29 witness: an outcome of the single-column solver with a column filled to the top by
\* two notes, the second cut to the room that was left, and a note that went elsewhere
C29_Witness ==
    /\ Returned
    /\ column_height > 0
    /\ Len(outcome.assignments) + Len(outcome.dropped_notes) >= 3
    /\ \E i, j \in 1..Len(outcome.assignments) :
          /\ i < j
          /\ outcome.assignments[i].column_index = outcome.assignments[j].column_index
          /\ outcome.assignments[j].start_mm > 0
          /\ outcome.assignments[j].body_chars_overflow > 0
          /\ outcome.assignments[j].start_mm + outcome.assignments[j].used_height_mm = column_height

\* the Assignment was built from the fallback variant synthesized for its note
FromFallback(a) ==
    _variants_for_note(a.note, variants_by_note, capacity_model, column_height, settings)
        = _build_fallback_variants(a.note, capacity_model, column_height, settings)

FallbackFootprint(a) ==
    _build_fallback_variants(a.note, capacity_model, column_height, settings)[1].footprint

\* C30: every Assignment built from a fallback variant has 0 <= body_chars_fit <=
\* chars_body and body_chars_fit + body_chars_overflow = chars_body, and the variant's
\* footprint carries the overflow_chars penalty exactly when body_chars_overflow > 0.
C30_CharsConserved ==
    \A a \in AllAssignments :
        FromFallback(a) =>
            /\ 0 <= a.body_chars_fit
            /\ a.body_chars_fit <= _chars_for_note(a.note)
            /\ a.body_chars_fit + a.body_chars_overflow = _chars_for_note(a.note)
            /\ ("overflow_chars" \in DOMAIN FallbackFootprint(a).penalties) = (a.body_chars_overflow > 0)
            /\ a.body_chars_overflow > 0 =>
                  FallbackFootprint(a).penalties["overflow_chars"] = a.body_chars_overflow

\* C30 witness: an outcome with a fallback Assignment whose body is cut (part of the
\* characters fit, the rest overflows) and one whose body fits whole
C30_Witness ==
    /\ Returned
    /\ \E a, b \in AssignmentsOf(outcome) :
          /\ FromFallback(a) /\ FromFallback(b)
          /\ a.body_chars_fit > 0 /\ a.body_chars_overflow > 0
          /\ b.body_chars_fit > 0 /\ b.body_chars_overflow = 0

====
